---- MODULE Spec2Model ----
(***************************************************************************)
(* Model of the webterm-dos-ansi terminal engine: Screen (screen.rs),      *)
(* AnsiParser (parser.rs), ScrollbackBuffer (scrollback.rs) and the        *)
(* Terminal coordinator with its input handlers (terminal.rs).             *)
(*                                                                         *)
(* Objects are records, methods are operators that take the object and     *)
(* return the object after the call.  Option<T> is a sequence of at most   *)
(* one element.  Bytes are the integers 0..255.                            *)
(***************************************************************************)
EXTENDS Integers, Sequences, FiniteSets, TLC

VARIABLES screen, parser, scrollback, action, pending, fed, events

vars == <<screen, parser, scrollback, action, pending, fed, events>>

(***************************************************************************)
(* Bounds of the model.                                                    *)
(***************************************************************************)
\* max_lines handed to Terminal::with_scrollback_lines (lib.rs:133,220)
MaxLines == 27
\* number of byte streams the environment delivers in one behaviour
MaxFeeds == 3
\* number of wheel/key/click events and animation frames in one behaviour
MaxEvents == 3
\* SpecSB: number of push_line / push_screen calls in one behaviour
MaxPushes == 4
\* SpecSB: number of navigation calls in one behaviour
MaxOps == 4
\* columns of the screen and of a history line.  The program's screen has 80
\* (screen.rs:35, scrollback.rs:12); no operation depends on the number of
\* columns except through the comparison with the last column, so the model
\* runs on a narrower screen to keep its states small.
SCREEN_WIDTH == 3
\* longest digit string accumulated in current_param
MaxDigits == 3
\* bits of a u32 and of a usize.  The program is built for wasm32, where
\* both have 32; the model runs on narrower words so that the largest
\* parameter the parser accepts, WORD_MAX, can be written with MaxDigits
\* digits.
WORD_BITS == 8
WORD_MAX == 2 ^ WORD_BITS - 1

(***************************************************************************)
(* Program constants.                                                      *)
(***************************************************************************)
SCREEN_HEIGHT == 25
LINE_BYTES == SCREEN_WIDTH * 2
\* the literal 79 of Terminal::is_about_to_scroll: the last of the 80 columns
LAST_COLUMN == SCREEN_WIDTH - 1
\* lines_per_frame of animate_exit_frame
LINES_PER_FRAME == 6

Min(a, b) == IF a < b THEN a ELSE b
Max(a, b) == IF a > b THEN a ELSE b
saturating_sub(a, b) == IF a > b THEN a - b ELSE 0

None == << >>
Some(x) == <<x>>

(***************************************************************************)
(* screen.rs                                                               *)
(***************************************************************************)
Cell(ch, fg, bg) == [ch |-> ch, fg |-> fg, bg |-> bg]

Cell_default == Cell(32, 7, 0)

Screen_new ==
    [width |-> SCREEN_WIDTH, height |-> SCREEN_HEIGHT,
     cells |-> [i \in 0..(SCREEN_WIDTH * SCREEN_HEIGHT - 1) |-> Cell_default],
     cursor_x |-> 0, cursor_y |-> 0]

get_cell(s, x, y) ==
    IF x < s.width /\ y < s.height THEN Some(s.cells[y * s.width + x]) ELSE None

set_cell(s, x, y, cell) ==
    IF x < s.width /\ y < s.height
    THEN [s EXCEPT !.cells[y * s.width + x] = cell]
    ELSE s

cursor_pos(s) == <<s.cursor_x, s.cursor_y>>

\* mutant: the cursor is stored as given
set_cursor_unclamped(s, x, y) ==
    [s EXCEPT !.cursor_x = x, !.cursor_y = y]

set_cursor(s, x, y) ==
    [s EXCEPT !.cursor_x = Min(x, s.width - 1), !.cursor_y = Min(y, s.height - 1)]

clear_with_bg(s, bg) ==
    [s EXCEPT !.cells = [i \in DOMAIN s.cells |-> Cell(32, 7, bg)],
              !.cursor_x = 0, !.cursor_y = 0]

dimensions(s) == <<s.width, s.height>>

Screen_scroll_up(s) ==
    LET bottom_start == (s.height - 1) * s.width
    IN [s EXCEPT !.cells = [i \in DOMAIN s.cells |->
                              IF i < bottom_start THEN s.cells[i + s.width]
                              ELSE Cell_default]]

\* Screen::get_line is called by terminal.rs:60 but its body is not part of
\* screen.rs as given; it is modelled as the row accessor the specification
\* describes (screen.row(y)): the cells of row y, left to right.
get_line(s, y) ==
    IF y < s.height
    THEN Some([x \in 1..s.width |-> s.cells[y * s.width + (x - 1)]])
    ELSE None

(***************************************************************************)
(* parser.rs                                                               *)
(***************************************************************************)
ESC == 27

AnsiParser_new ==
    [state |-> "Normal", params |-> << >>, current_param |-> << >>,
     current_fg |-> 7, current_bg |-> 0,
     bold |-> FALSE, blink |-> FALSE, reverse |-> FALSE]

is_ascii_digit(byte) == byte >= 48 /\ byte <= 57

\* the decimal value of a string of ASCII digits
RECURSIVE digits_value(_)
digits_value(str) ==
    IF str = << >> THEN 0
    ELSE 10 * digits_value(SubSeq(str, 1, Len(str) - 1)) + (str[Len(str)] - 48)

\* str::parse::<u32>() on a string of ASCII digits: Err on the empty string
\* and on a value above u32::MAX, Ok(v) otherwise
parse_u32(str) ==
    IF str = << >> THEN None
    ELSE IF digits_value(str) > WORD_MAX THEN None
    ELSE Some(digits_value(str))

unwrap_or(opt, dflt) == IF opt = None THEN dflt ELSE opt[1]

\* Vec::get(i) / first() followed by copied().unwrap_or(dflt)
param_or(params, i, dflt) == IF i < Len(params) THEN params[i + 1] ELSE dflt

is_in_normal_state(p) == p.state = "Normal"

will_clear_screen(p, byte) ==
    IF p.state # "Csi" THEN FALSE
    ELSE IF byte # 74 THEN FALSE
    ELSE LET param == IF p.current_param # << >>
                      THEN unwrap_or(parse_u32(p.current_param), 0)
                      ELSE param_or(p.params, 0, 0)
         IN param = 2

push_param(p) ==
    IF p.current_param # << >>
    THEN [p EXCEPT !.params = IF parse_u32(p.current_param) # None
                              THEN Append(p.params, parse_u32(p.current_param)[1])
                              ELSE p.params,
                   !.current_param = << >>]
    ELSE p

\* mutant: bold brightens the foreground attribute before reverse swaps it
effective_fg_bold_before_reverse(p) ==
    LET fg == IF p.bold /\ p.current_fg < 8 THEN p.current_fg + 8
              ELSE p.current_fg
    IN IF p.reverse THEN p.current_bg ELSE fg

\* effective colours (u8 arithmetic; fg + 8 cannot wrap because fg < 8)
effective_fg(p) ==
    LET fg == IF p.reverse THEN p.current_bg ELSE p.current_fg
    IN IF p.bold /\ fg < 8 THEN fg + 8 ELSE fg

\* mutant: blink raises every background by 8
effective_bg_blink_always(p) ==
    LET bg == IF p.reverse THEN p.current_fg ELSE p.current_bg
    IN IF p.blink THEN bg + 8 ELSE bg

effective_bg(p) ==
    LET bg == IF p.reverse THEN p.current_fg ELSE p.current_bg
    IN IF p.blink /\ bg < 8 THEN bg + 8 ELSE bg

\* The handlers below return [parser, screen, action].
Result(p, s, a) == [parser |-> p, screen |-> s, action |-> a]

handle_cursor_position(p, s) ==
    LET row == saturating_sub(param_or(p.params, 0, 1), 1)
        col == saturating_sub(param_or(p.params, 1, 1), 1)
    IN set_cursor(s, col, row)

handle_cursor_up(p, s) ==
    LET n == param_or(p.params, 0, 1)
    IN set_cursor(s, s.cursor_x, saturating_sub(s.cursor_y, n))

\* a + b on usize.  A sum above usize::MAX panics in a build with overflow
\* checks (usize_add_overflows) and wraps in a build without them; the
\* value below is the wrapped one.
usize_add_overflows(a, b) == a + b > WORD_MAX

usize_add(a, b) == (a + b) % (WORD_MAX + 1)

handle_cursor_down(p, s) ==
    LET n == param_or(p.params, 0, 1)
    IN set_cursor(s, s.cursor_x, usize_add(s.cursor_y, n))

handle_cursor_forward(p, s) ==
    LET n == param_or(p.params, 0, 1)
    IN set_cursor(s, usize_add(s.cursor_x, n), s.cursor_y)

handle_cursor_backward(p, s) ==
    LET n == param_or(p.params, 0, 1)
    IN set_cursor(s, saturating_sub(s.cursor_x, n), s.cursor_y)

handle_erase_display(p, s) ==
    LET mode == param_or(p.params, 0, 0)
    IN IF mode = 2
       THEN Result(p, clear_with_bg(s, effective_bg(p)), "ScreenCleared")
       ELSE Result(p, s, "None")

handle_erase_line(p, s) == s

sgr_reset(p) ==
    [p EXCEPT !.current_fg = 7, !.current_bg = 0,
              !.bold = FALSE, !.blink = FALSE, !.reverse = FALSE]

sgr_param(p, param) ==
    IF param = 0 THEN sgr_reset(p)
    ELSE IF param = 1 THEN [p EXCEPT !.bold = TRUE]
    ELSE IF param = 5 THEN [p EXCEPT !.blink = TRUE]
    ELSE IF param = 7 THEN [p EXCEPT !.reverse = TRUE]
    ELSE IF param >= 30 /\ param <= 37 THEN [p EXCEPT !.current_fg = param - 30]
    ELSE IF param >= 40 /\ param <= 47 THEN [p EXCEPT !.current_bg = param - 40]
    ELSE IF param >= 90 /\ param <= 97 THEN [p EXCEPT !.current_fg = param - 90 + 8]
    ELSE IF param >= 100 /\ param <= 107 THEN [p EXCEPT !.current_bg = param - 100 + 8]
    ELSE p

RECURSIVE sgr_loop(_, _)
sgr_loop(p, i) ==
    IF i > Len(p.params) THEN p ELSE sgr_loop(sgr_param(p, p.params[i]), i + 1)

\* mutant: CSI m without parameters changes nothing
handle_sgr_empty_keeps(p) == sgr_loop(p, 1)

handle_sgr(p) == IF p.params = << >> THEN sgr_reset(p) ELSE sgr_loop(p, 1)

\* mutant: an unknown command byte is written to the screen
handle_csi_command_writes_unknown(p, cmd, s) ==
    IF cmd = 72 \/ cmd = 102 THEN Result(p, handle_cursor_position(p, s), "None")
    ELSE IF cmd = 65 THEN Result(p, handle_cursor_up(p, s), "None")
    ELSE IF cmd = 66 THEN Result(p, handle_cursor_down(p, s), "None")
    ELSE IF cmd = 67 THEN Result(p, handle_cursor_forward(p, s), "None")
    ELSE IF cmd = 68 THEN Result(p, handle_cursor_backward(p, s), "None")
    ELSE IF cmd = 74 THEN handle_erase_display(p, s)
    ELSE IF cmd = 75 THEN Result(p, handle_erase_line(p, s), "None")
    ELSE IF cmd = 109 THEN Result(handle_sgr(p), s, "None")
    ELSE IF cmd >= 32
         THEN Result(p, set_cell(s, s.cursor_x, s.cursor_y,
                                 Cell(cmd, effective_fg(p), effective_bg(p))),
                     "None")
    ELSE Result(p, s, "None")

handle_csi_command(p, cmd, s) ==
    IF cmd = 72 \/ cmd = 102 THEN Result(p, handle_cursor_position(p, s), "None")
    ELSE IF cmd = 65 THEN Result(p, handle_cursor_up(p, s), "None")
    ELSE IF cmd = 66 THEN Result(p, handle_cursor_down(p, s), "None")
    ELSE IF cmd = 67 THEN Result(p, handle_cursor_forward(p, s), "None")
    ELSE IF cmd = 68 THEN Result(p, handle_cursor_backward(p, s), "None")
    ELSE IF cmd = 74 THEN handle_erase_display(p, s)
    ELSE IF cmd = 75 THEN Result(p, handle_erase_line(p, s), "None")
    ELSE IF cmd = 109 THEN Result(handle_sgr(p), s, "None")
    ELSE Result(p, s, "None")

\* mutant: a byte written in the last column leaves the cursor there
write_char_stays_at_margin(p, ch, s) ==
    LET x == s.cursor_x
        y == s.cursor_y
        cell == Cell(ch, effective_fg(p), effective_bg(p))
        s1 == set_cell(s, x, y, cell)
    IN Result(p, set_cursor(s1, x + 1, y), "None")

write_char(p, ch, s) ==
    LET x == s.cursor_x
        y == s.cursor_y
        cell == Cell(ch, effective_fg(p), effective_bg(p))
        s1 == set_cell(s, x, y, cell)
    IN IF x + 1 < s1.width THEN Result(p, set_cursor(s1, x + 1, y), "None")
       ELSE IF y + 1 < s1.height THEN Result(p, set_cursor(s1, 0, y + 1), "None")
       ELSE Result(p, set_cursor(Screen_scroll_up(s1), 0, y), "LineScrolled")

handle_newline(p, s) ==
    LET y == s.cursor_y
    IN IF y + 1 < s.height THEN Result(p, set_cursor(s, 0, y + 1), "None")
       ELSE Result(p, set_cursor(Screen_scroll_up(s), 0, y), "LineScrolled")

handle_carriage_return(p, s) == set_cursor(s, 0, s.cursor_y)

AnsiParser_process_byte(p, byte, s) ==
    IF p.state = "Normal" THEN
        IF byte = ESC THEN Result([p EXCEPT !.state = "Escape"], s, "None")
        ELSE IF byte = 10 THEN handle_newline(p, s)
        ELSE IF byte = 13 THEN Result(p, handle_carriage_return(p, s), "None")
        ELSE IF byte >= 32 THEN write_char(p, byte, s)
        ELSE Result(p, s, "None")
    ELSE IF p.state = "Escape" THEN
        IF byte = 91
        THEN Result([p EXCEPT !.state = "Csi", !.params = << >>,
                              !.current_param = << >>], s, "None")
        ELSE Result([p EXCEPT !.state = "Normal"], s, "None")
    ELSE
        IF is_ascii_digit(byte)
        THEN Result([p EXCEPT !.current_param = Append(@, byte)], s, "None")
        ELSE IF byte = 59 THEN Result(push_param(p), s, "None")
        ELSE LET p1 == push_param(p)
                 r == handle_csi_command(p1, byte, s)
             IN Result([r.parser EXCEPT !.state = "Normal"], r.screen, r.action)

(***************************************************************************)
(* scrollback.rs                                                           *)
(***************************************************************************)
with_max_lines(max_lines) ==
    [history |-> << >>, max_lines |-> max_lines, active |-> FALSE,
     keyboard_entry |-> FALSE, viewport_position |-> 0,
     animating_exit |-> FALSE, viewer_mode |-> FALSE]

\* [ch, ((bg & 0x0F) << 4) | (fg & 0x0F)], the shift done in u8
cell_to_cga(cell) == <<cell.ch, (((cell.bg % 16) * 16) % 256) + (cell.fg % 16)>>

\* mutant: the nibbles are read the other way round
cga_to_cell_swapped(cga) == Cell(cga[1], (cga[2] \div 16) % 16, cga[2] % 16)

cga_to_cell(cga) == Cell(cga[1], cga[2] % 16, (cga[2] \div 16) % 16)

\* the 160-byte line packed from the first SCREEN_WIDTH cells, zero elsewhere
pack_cells(cells) ==
    [i \in 1..LINE_BYTES |->
        LET k == (i - 1) \div 2
        IN IF k < Min(Len(cells), SCREEN_WIDTH)
           THEN cell_to_cga(cells[k + 1])[((i - 1) % 2) + 1]
           ELSE 0]

\* mutant: keyboard-mode viewport_position does not follow a trim
push_line_keyboard_stays(sb, cells) ==
    LET line == pack_cells(cells)
        hist1 == Append(sb.history, line)
        vp1 == IF sb.active /\ ~sb.keyboard_entry /\ ~sb.animating_exit
                  /\ sb.viewport_position > 0
               THEN sb.viewport_position + 1
               ELSE sb.viewport_position
        trim == Len(hist1) > sb.max_lines
        vp3 == IF trim /\ ~sb.keyboard_entry /\ ~sb.animating_exit /\ vp1 > 0
               THEN saturating_sub(vp1, 1) ELSE vp1
    IN [sb EXCEPT !.history = IF trim THEN Tail(hist1) ELSE hist1,
                  !.viewport_position = vp3]

\* mutant: the history is never trimmed
push_line_untrimmed(sb, cells) ==
    LET line == pack_cells(cells)
        vp1 == IF sb.active /\ ~sb.keyboard_entry /\ ~sb.animating_exit
                  /\ sb.viewport_position > 0
               THEN sb.viewport_position + 1
               ELSE sb.viewport_position
    IN [sb EXCEPT !.history = Append(sb.history, line),
                  !.viewport_position = vp1]

\* mutant: on overflow the newest line is dropped instead of the oldest
push_line_drops_newest(sb, cells) ==
    LET line == pack_cells(cells)
        hist1 == Append(sb.history, line)
        trim == Len(hist1) > sb.max_lines
    IN [sb EXCEPT !.history = IF trim THEN sb.history ELSE hist1]

\* mutant: no line is recorded while the history is being viewed
push_line_paused_while_viewing(sb, cells) ==
    LET line == pack_cells(cells)
        hist1 == IF sb.active THEN sb.history ELSE Append(sb.history, line)
        trim == Len(hist1) > sb.max_lines
    IN [sb EXCEPT !.history = IF trim THEN Tail(hist1) ELSE hist1]

\* mutant: the mouse-style offset follows new lines during the exit animation
push_line_sticky_while_animating(sb, cells) ==
    LET line == pack_cells(cells)
        hist1 == Append(sb.history, line)
        vp1 == IF sb.active /\ ~sb.keyboard_entry /\ sb.viewport_position > 0
               THEN sb.viewport_position + 1
               ELSE sb.viewport_position
        trim == Len(hist1) > sb.max_lines
        vp2 == IF trim /\ sb.keyboard_entry /\ vp1 > 0
               THEN saturating_sub(vp1, 1) ELSE vp1
        vp3 == IF trim /\ ~sb.keyboard_entry /\ ~sb.animating_exit /\ vp2 > 0
               THEN saturating_sub(vp2, 1) ELSE vp2
    IN [sb EXCEPT !.history = IF trim THEN Tail(hist1) ELSE hist1,
                  !.viewport_position = vp3]

push_line(sb, cells) ==
    LET line == pack_cells(cells)
        hist1 == Append(sb.history, line)
        vp1 == IF sb.active /\ ~sb.keyboard_entry /\ ~sb.animating_exit
                  /\ sb.viewport_position > 0
               THEN sb.viewport_position + 1
               ELSE sb.viewport_position
        trim == Len(hist1) > sb.max_lines
        vp2 == IF trim /\ sb.keyboard_entry /\ vp1 > 0
               THEN saturating_sub(vp1, 1) ELSE vp1
        vp3 == IF trim /\ ~sb.keyboard_entry /\ ~sb.animating_exit /\ vp2 > 0
               THEN saturating_sub(vp2, 1) ELSE vp2
    IN [sb EXCEPT !.history = IF trim THEN Tail(hist1) ELSE hist1,
                  !.viewport_position = vp3]

\* the cells push_screen collects for row y: get_cell(x, y) for x in
\* 0..SCREEN_WIDTH, keeping those that are Some (x < width and y < height)
row_cells(s, y) ==
    [x \in 1..(IF y < s.height THEN Min(SCREEN_WIDTH, s.width) ELSE 0) |->
        get_cell(s, x - 1, y)[1]]

RECURSIVE push_screen_from(_, _, _)
push_screen_from(sb, s, y) ==
    IF y >= SCREEN_HEIGHT THEN sb
    ELSE LET sb1 == push_line(sb, row_cells(s, y))
         IN IF Len(sb1.history) >= 0 THEN push_screen_from(sb1, s, y + 1) ELSE sb1

push_screen(sb, s) == push_screen_from(sb, s, 0)

enter_scrollback(sb) ==
    IF ~sb.active /\ sb.history # << >>
    THEN [sb EXCEPT !.active = TRUE, !.keyboard_entry = FALSE,
                    !.viewport_position = 0]
    ELSE sb

\* mutant: keyboard mode starts at the top of the history
enter_scrollback_keyboard_at_top(sb) ==
    IF ~sb.active /\ sb.history # << >>
    THEN [sb EXCEPT !.active = TRUE, !.keyboard_entry = TRUE,
                    !.viewport_position = 0]
    ELSE sb

enter_scrollback_keyboard(sb) ==
    IF ~sb.active /\ sb.history # << >>
    THEN [sb EXCEPT !.active = TRUE, !.keyboard_entry = TRUE,
                    !.viewport_position = Len(sb.history)]
    ELSE sb

\* mutant: viewer mode is entered over an empty history too
enter_viewer_mode_unguarded(sb) ==
    [sb EXCEPT !.active = TRUE, !.keyboard_entry = TRUE,
               !.viewer_mode = TRUE, !.viewport_position = 0]

enter_viewer_mode(sb) ==
    IF sb.history # << >>
    THEN [sb EXCEPT !.active = TRUE, !.keyboard_entry = TRUE,
                    !.viewer_mode = TRUE, !.viewport_position = 0]
    ELSE sb

is_viewer_mode(sb) == sb.viewer_mode

should_show_indicators(sb) == sb.active /\ ~sb.viewer_mode

\* mutant: viewport_position and animating_exit survive the exit
exit_scrollback_keeps_position(sb) ==
    [sb EXCEPT !.active = FALSE, !.keyboard_entry = FALSE,
               !.viewer_mode = FALSE]

\* mutant: viewer_mode survives the exit
exit_scrollback_keeps_viewer_mode(sb) ==
    [sb EXCEPT !.active = FALSE, !.keyboard_entry = FALSE,
               !.viewport_position = 0, !.animating_exit = FALSE]

exit_scrollback(sb) ==
    [sb EXCEPT !.active = FALSE, !.keyboard_entry = FALSE,
               !.viewport_position = 0, !.animating_exit = FALSE,
               !.viewer_mode = FALSE]

\* mutant: the keyboard-mode position is carried over unconverted
start_animated_exit_keeps_position(sb) ==
    IF ~sb.active THEN [sb |-> sb, ret |-> FALSE]
    ELSE LET offset_from_bottom ==
                 IF sb.keyboard_entry
                 THEN saturating_sub(Len(sb.history), sb.viewport_position)
                 ELSE sb.viewport_position
         IN IF offset_from_bottom = 0
            THEN [sb |-> exit_scrollback(sb), ret |-> FALSE]
            ELSE [sb |-> [sb EXCEPT !.keyboard_entry = FALSE,
                                    !.animating_exit = TRUE],
                  ret |-> TRUE]

\* start_animated_exit and animate_exit_frame return [sb, ret]
start_animated_exit(sb) ==
    IF ~sb.active THEN [sb |-> sb, ret |-> FALSE]
    ELSE LET offset_from_bottom ==
                 IF sb.keyboard_entry
                 THEN saturating_sub(Len(sb.history), sb.viewport_position)
                 ELSE sb.viewport_position
         IN IF offset_from_bottom = 0
            THEN [sb |-> exit_scrollback(sb), ret |-> FALSE]
            ELSE [sb |-> [sb EXCEPT !.keyboard_entry = FALSE,
                                    !.viewport_position = offset_from_bottom,
                                    !.animating_exit = TRUE],
                  ret |-> TRUE]

animate_exit_frame(sb) ==
    IF ~sb.animating_exit \/ ~sb.active THEN [sb |-> sb, ret |-> FALSE]
    ELSE IF sb.viewport_position <= LINES_PER_FRAME
         THEN [sb |-> exit_scrollback(sb), ret |-> FALSE]
         ELSE [sb |-> [sb EXCEPT !.viewport_position = @ - LINES_PER_FRAME],
               ret |-> TRUE]

is_animating_exit(sb) == sb.animating_exit

toggle_scrollback(sb) ==
    IF sb.animating_exit
    THEN LET total_virtual_lines == Len(sb.history) + SCREEN_HEIGHT
             view_start == saturating_sub(total_virtual_lines,
                                          SCREEN_HEIGHT + sb.viewport_position)
         IN [sb EXCEPT !.animating_exit = FALSE,
                       !.viewport_position = view_start,
                       !.keyboard_entry = TRUE]
    ELSE IF sb.active THEN start_animated_exit(sb).sb
    ELSE enter_scrollback_keyboard(sb)

is_active(sb) == sb.active

\* mutant: mouse-mode scroll_up is not capped at the length of the history
scroll_up_uncapped(sb, lines) ==
    IF sb.animating_exit
    THEN [sb EXCEPT !.animating_exit = FALSE,
                    !.viewport_position = @ + lines]
    ELSE LET sb1 == IF ~sb.active THEN enter_scrollback(sb) ELSE sb
         IN IF sb1.active
            THEN IF sb1.keyboard_entry
                 THEN [sb1 EXCEPT !.viewport_position = saturating_sub(@, lines)]
                 ELSE [sb1 EXCEPT !.viewport_position = @ + lines]
            ELSE sb1

\* mutant: scroll_up during the exit animation scrolls but leaves the
\* animation running
scroll_up_keeps_animating(sb, lines) ==
    IF sb.animating_exit
    THEN [sb EXCEPT !.viewport_position = Min(@ + lines, Len(sb.history))]
    ELSE LET sb1 == IF ~sb.active THEN enter_scrollback(sb) ELSE sb
         IN IF sb1.active
            THEN IF sb1.keyboard_entry
                 THEN [sb1 EXCEPT !.viewport_position = saturating_sub(@, lines)]
                 ELSE [sb1 EXCEPT !.viewport_position =
                                      Min(@ + lines, Len(sb1.history))]
            ELSE sb1

scroll_up(sb, lines) ==
    IF sb.animating_exit
    THEN [sb EXCEPT !.animating_exit = FALSE,
                    !.viewport_position = Min(@ + lines, Len(sb.history))]
    ELSE LET sb1 == IF ~sb.active THEN enter_scrollback(sb) ELSE sb
         IN IF sb1.active
            THEN IF sb1.keyboard_entry
                 THEN [sb1 EXCEPT !.viewport_position = saturating_sub(@, lines)]
                 ELSE [sb1 EXCEPT !.viewport_position =
                                      Min(@ + lines, Len(sb1.history))]
            ELSE sb1

\* mutant: keyboard mode exits on reaching the bottom, as mouse mode does
scroll_down_exits_at_bottom(sb, lines) ==
    IF sb.active
    THEN IF sb.viewport_position + lines >= Len(sb.history) /\ sb.keyboard_entry
         THEN exit_scrollback(sb)
         ELSE IF sb.keyboard_entry
              THEN [sb EXCEPT !.viewport_position = @ + lines]
              ELSE IF sb.viewport_position <= lines
                   THEN exit_scrollback(sb)
                   ELSE [sb EXCEPT !.viewport_position = @ - lines]
    ELSE sb

\* mutant: keyboard mode scrolls down past the end of the history
scroll_down_uncapped(sb, lines) ==
    IF sb.active
    THEN IF sb.keyboard_entry
         THEN [sb EXCEPT !.viewport_position = @ + lines]
         ELSE IF sb.viewport_position <= lines
              THEN exit_scrollback(sb)
              ELSE [sb EXCEPT !.viewport_position = @ - lines]
    ELSE sb

scroll_down(sb, lines) ==
    IF sb.active
    THEN IF sb.keyboard_entry
         THEN [sb EXCEPT !.viewport_position = Min(@ + lines, Len(sb.history))]
         ELSE IF sb.viewport_position <= lines
              THEN exit_scrollback(sb)
              ELSE [sb EXCEPT !.viewport_position = @ - lines]
    ELSE sb

page_up(sb) == scroll_up(sb, SCREEN_HEIGHT)

page_down(sb) == scroll_down(sb, SCREEN_HEIGHT)

screen_line_to_cga(s, y) ==
    IF y >= SCREEN_HEIGHT THEN None
    ELSE Some([i \in 1..LINE_BYTES |->
                 LET x == (i - 1) \div 2
                     c == get_cell(s, x, y)
                 IN IF c # None THEN cell_to_cga(c[1])[((i - 1) % 2) + 1] ELSE 0])

\* mutant: the mouse-mode window is placed in the history alone
get_display_line_in_history(sb, y, s) ==
    IF y >= SCREEN_HEIGHT THEN None
    ELSE IF ~sb.active THEN screen_line_to_cga(s, y)
    ELSE IF ~sb.keyboard_entry /\ sb.viewport_position = 0
         THEN screen_line_to_cga(s, y)
    ELSE LET line_index ==
                 IF sb.keyboard_entry THEN sb.viewport_position + y
                 ELSE saturating_sub(Len(sb.history),
                                     SCREEN_HEIGHT + sb.viewport_position) + y
         IN IF line_index < Len(sb.history)
            THEN Some(sb.history[line_index + 1])
            ELSE screen_line_to_cga(s, line_index - Len(sb.history))

get_display_line(sb, y, s) ==
    IF y >= SCREEN_HEIGHT THEN None
    ELSE IF ~sb.active THEN screen_line_to_cga(s, y)
    ELSE IF ~sb.keyboard_entry /\ sb.viewport_position = 0
         THEN screen_line_to_cga(s, y)
    ELSE LET line_index ==
                 IF sb.keyboard_entry THEN sb.viewport_position + y
                 ELSE LET total_virtual_lines == Len(sb.history) + SCREEN_HEIGHT
                          view_start ==
                              saturating_sub(total_virtual_lines,
                                             SCREEN_HEIGHT + sb.viewport_position)
                      IN view_start + y
         IN IF line_index < Len(sb.history)
            THEN Some(sb.history[line_index + 1])
            ELSE screen_line_to_cga(s, line_index - Len(sb.history))

(***************************************************************************)
(* terminal.rs: the coordinator.  A Terminal is [screen, parser,           *)
(* scrollback].                                                            *)
(***************************************************************************)
Terminal(s, p, sb) == [screen |-> s, parser |-> p, scrollback |-> sb]

with_scrollback_lines(max_lines) ==
    Terminal(Screen_new, AnsiParser_new, with_max_lines(max_lines))

is_about_to_clear_screen(t, byte) == will_clear_screen(t.parser, byte)

\* mutant: only the newline is anticipated, not the printable byte at the
\* bottom-right corner
is_about_to_scroll_newline_only(t, byte) ==
    IF ~is_in_normal_state(t.parser) THEN FALSE
    ELSE byte = 10 /\ cursor_pos(t.screen)[2] = dimensions(t.screen)[2] - 1

\* mutant: only the printable byte at the bottom-right corner is anticipated,
\* not the newline
is_about_to_scroll_printable_only(t, byte) ==
    IF ~is_in_normal_state(t.parser) THEN FALSE
    ELSE /\ byte >= 32
         /\ cursor_pos(t.screen)[2] = dimensions(t.screen)[2] - 1
         /\ cursor_pos(t.screen)[1] = LAST_COLUMN

is_about_to_scroll(t, byte) ==
    IF ~is_in_normal_state(t.parser) THEN FALSE
    ELSE LET height == dimensions(t.screen)[2]
             cursor_x == cursor_pos(t.screen)[1]
             cursor_y == cursor_pos(t.screen)[2]
         IN IF byte = 10 THEN cursor_y = height - 1
            ELSE IF byte >= 32 THEN cursor_y = height - 1 /\ cursor_x = LAST_COLUMN
            ELSE FALSE

\* returns [t, action]; action is the ParseAction the code binds to _action
Terminal_process_byte(t, byte) ==
    LET should_capture_screen == is_about_to_clear_screen(t, byte)
        sb1 == IF should_capture_screen
               THEN push_screen(t.scrollback, t.screen)
               ELSE t.scrollback
        should_capture_line == is_about_to_scroll(t, byte)
        line == get_line(t.screen, 0)
        sb2 == IF should_capture_line /\ line # None
               THEN push_line(sb1, line[1])
               ELSE sb1
        r == AnsiParser_process_byte(t.parser, byte, t.screen)
    IN [t |-> Terminal(r.screen, r.parser, sb2), action |-> r.action]

ParseActions == {"None", "ScreenCleared", "LineScrolled"}

\* the loop over the bytes; testing r.action makes each step be evaluated
\* before the next one starts
RECURSIVE process_bytes_from(_, _, _)
process_bytes_from(t, bytes, i) ==
    IF i > Len(bytes) THEN t
    ELSE LET r == Terminal_process_byte(t, bytes[i])
         IN IF r.action \in ParseActions
            THEN process_bytes_from(r.t, bytes, i + 1)
            ELSE r.t

process_bytes(t, bytes) == process_bytes_from(t, bytes, 1)

Abs(d) == IF d < 0 THEN -d ELSE d

\* ((delta_y.abs() / 40.0).ceil() as usize).max(1), delta_y an integer here
wheel_lines(delta_y) == Max((Abs(delta_y) + 39) \div 40, 1)

\* mutant: a wheel-down event reports whether the scrollback is active after
\* the call
handle_wheel_reports_active_after(t, delta_y) ==
    LET was_active == is_active(t.scrollback)
        lines == wheel_lines(delta_y)
    IN IF delta_y < 0
       THEN [t |-> [t EXCEPT !.scrollback = scroll_up(@, lines)], ret |-> TRUE]
       ELSE IF delta_y > 0
            THEN IF was_active
                 THEN [t |-> [t EXCEPT !.scrollback = scroll_down(@, lines)],
                       ret |-> is_active(scroll_down(t.scrollback, lines))]
                 ELSE [t |-> t, ret |-> FALSE]
            ELSE [t |-> t, ret |-> was_active]

\* the handlers return [t, ret]
handle_wheel(t, delta_y) ==
    LET was_active == is_active(t.scrollback)
        lines == wheel_lines(delta_y)
    IN IF delta_y < 0
       THEN [t |-> [t EXCEPT !.scrollback = scroll_up(@, lines)], ret |-> TRUE]
       ELSE IF delta_y > 0
            THEN IF was_active
                 THEN [t |-> [t EXCEPT !.scrollback = scroll_down(@, lines)],
                       ret |-> TRUE]
                 ELSE [t |-> t, ret |-> FALSE]
            ELSE [t |-> t, ret |-> was_active]

\* mutant: while active, keys that are not navigation keys are not handled
handle_key_passes_other_keys(t, key, alt_key) ==
    IF (key = "k" \/ key = "K") /\ alt_key
    THEN [t |-> [t EXCEPT !.scrollback = toggle_scrollback(@)], ret |-> TRUE]
    ELSE IF is_active(t.scrollback)
         THEN [t |-> [t EXCEPT !.scrollback =
                         IF key = "Escape" THEN start_animated_exit(@).sb
                         ELSE IF key = "ArrowUp" THEN scroll_up(@, 1)
                         ELSE IF key = "ArrowDown" THEN scroll_down(@, 1)
                         ELSE IF key = "PageUp" THEN page_up(@)
                         ELSE IF key = "PageDown" THEN page_down(@)
                         ELSE @],
               ret |-> key \in {"Escape", "ArrowUp", "ArrowDown",
                                "PageUp", "PageDown"}]
         ELSE [t |-> t, ret |-> FALSE]

handle_key(t, key, alt_key) ==
    IF (key = "k" \/ key = "K") /\ alt_key
    THEN [t |-> [t EXCEPT !.scrollback = toggle_scrollback(@)], ret |-> TRUE]
    ELSE IF is_active(t.scrollback)
         THEN [t |-> [t EXCEPT !.scrollback =
                         IF key = "Escape" THEN start_animated_exit(@).sb
                         ELSE IF key = "ArrowUp" THEN scroll_up(@, 1)
                         ELSE IF key = "ArrowDown" THEN scroll_down(@, 1)
                         ELSE IF key = "PageUp" THEN page_up(@)
                         ELSE IF key = "PageDown" THEN page_down(@)
                         ELSE @],
               ret |-> TRUE]
         ELSE [t |-> t, ret |-> FALSE]

\* mutant: a click leaves the scrollback at once, without the animation
handle_click_exits_at_once(t) ==
    IF is_active(t.scrollback)
    THEN [t |-> [t EXCEPT !.scrollback = exit_scrollback(@)], ret |-> TRUE]
    ELSE [t |-> t, ret |-> FALSE]

handle_click(t) ==
    IF is_active(t.scrollback)
    THEN [t |-> [t EXCEPT !.scrollback = start_animated_exit(@).sb], ret |-> TRUE]
    ELSE [t |-> t, ret |-> FALSE]

\* the frame callback of start_exit_animation: it returns at once when the
\* animation is no longer running, else advances it by one frame
animation_frame(t) ==
    IF ~is_animating_exit(t.scrollback) THEN t
    ELSE [t EXCEPT !.scrollback = animate_exit_frame(@).sb]

(***************************************************************************)
(* The environment: byte streams and input events.                         *)
(*   screen, parser, scrollback  the three fields of the Terminal          *)
(*   action    the ParseAction returned for the last byte processed        *)
(*   pending   bytes of the current stream not yet handed to process_byte  *)
(*   fed       number of streams (SpecSB: pushes) delivered so far         *)
(*   events    number of input events and animation frames so far          *)
(***************************************************************************)
TheTerminal == Terminal(screen, parser, scrollback)

\* ESC [ H, then one letter at the start of each of the 25 rows
RECURSIVE paint_rows(_, _)
paint_rows(first, y) ==
    IF y >= SCREEN_HEIGHT THEN << >>
    ELSE <<first + y>> \o (IF y < SCREEN_HEIGHT - 1 THEN <<10>> ELSE << >>)
         \o paint_rows(first, y + 1)

PaintUpper == <<ESC, 91, 72>> \o paint_rows(65, 0)

\* streams handed to process_bytes in one call
BulkStreams == {PaintUpper}

\* streams delivered one byte at a time:
\*   ESC[2J, ESC[2;5J, newline, ESC[99C (to the last column) followed by X
ByteStreams ==
    { <<ESC, 91, 50, 74>>,
      <<ESC, 91, 50, 59, 53, 74>>,
      <<10>>,
      <<ESC, 91, 57, 57, 67, 88>> }

WheelDeltas == {-120, -40, 0, 40, 120}

Keys == {"k", "K", "Escape", "ArrowUp", "ArrowDown", "PageUp", "PageDown", "a"}

\* the key events delivered: <<key, alt_key>>
KeyEvents ==
    { <<"k", TRUE>>, <<"K", TRUE>>, <<"k", FALSE>>,
      <<"Escape", FALSE>>, <<"ArrowUp", FALSE>>,
      <<"ArrowDown", FALSE>>, <<"PageUp", FALSE>>, <<"PageDown", FALSE>>,
      <<"a", FALSE>> }

Init ==
    /\ screen = with_scrollback_lines(MaxLines).screen
    /\ parser = with_scrollback_lines(MaxLines).parser
    /\ scrollback = with_scrollback_lines(MaxLines).scrollback
    /\ action = "None"
    /\ pending = << >>
    /\ fed = 0
    /\ events = 0

SetTerminal(t) ==
    /\ screen' = t.screen
    /\ parser' = t.parser
    /\ scrollback' = t.scrollback

\* the streams whose next byte may be delivered: the rest of the stream in
\* flight, or any stream when none is in flight
next_streams == IF pending = << >> THEN ByteStreams ELSE {pending}

\* Terminal::process_byte on the first byte of stream s
ProcessByteOf(s) ==
    /\ pending = << >> => fed < MaxFeeds
    /\ (parser.state = "Csi" /\ is_ascii_digit(Head(s)))
           => Len(parser.current_param) < MaxDigits
    /\ LET r == Terminal_process_byte(TheTerminal, Head(s))
       IN /\ SetTerminal(r.t)
          /\ action' = r.action
    /\ pending' = Tail(s)
    /\ fed' = IF pending = << >> THEN fed + 1 ELSE fed
    /\ UNCHANGED events

\* Terminal::process_byte on the next byte of the stream being delivered
ProcessByte == \E s \in next_streams : ProcessByteOf(s)

\* Terminal::process_bytes on a whole stream
ProcessBytes ==
    \E s \in BulkStreams :
        /\ pending = << >>
        /\ fed < MaxFeeds
        /\ SetTerminal(process_bytes(TheTerminal, s))
        /\ fed' = fed + 1
        /\ UNCHANGED <<action, pending, events>>

Event(t) ==
    /\ events < MaxEvents
    /\ SetTerminal(t)
    /\ events' = events + 1
    /\ UNCHANGED <<action, pending, fed>>

HandleWheel == \E d \in WheelDeltas : Event(handle_wheel(TheTerminal, d).t)

HandleKey == \E k \in KeyEvents : Event(handle_key(TheTerminal, k[1], k[2]).t)

HandleClick == Event(handle_click(TheTerminal).t)

AnimationFrame ==
    /\ is_animating_exit(scrollback)
    /\ Event(animation_frame(TheTerminal))

Next == ProcessByte \/ ProcessBytes \/ HandleWheel \/ HandleKey \/ HandleClick \/ AnimationFrame

Spec == Init /\ [][Next]_vars

(***************************************************************************)
(* SpecSB: the ScrollbackBuffer driven directly through its public         *)
(* methods, over a screen whose rows differ (the terminal after PaintUpper *)
(* has been processed).  fed counts the pushes, events the other calls.    *)
(***************************************************************************)
PushChars == {48, 49}

ScrollAmounts == {1, 3}

line_of(ch) == [x \in 1..SCREEN_WIDTH |-> Cell(ch, 7, 0)]

InitSB ==
    LET t == process_bytes(with_scrollback_lines(MaxLines), PaintUpper)
    IN /\ screen = t.screen
       /\ parser = t.parser
       /\ scrollback = t.scrollback
       /\ action = "None"
       /\ pending = << >>
       /\ fed = 0
       /\ events = 0

Push(sb) ==
    /\ fed < MaxPushes
    /\ scrollback' = sb
    /\ fed' = fed + 1
    /\ UNCHANGED <<screen, parser, action, pending, events>>

Nav(sb) ==
    /\ events < MaxOps
    /\ scrollback' = sb
    /\ events' = events + 1
    /\ UNCHANGED <<screen, parser, action, pending, fed>>

SB_push_line == \E c \in PushChars : Push(push_line(scrollback, line_of(c)))

SB_push_screen == Push(push_screen(scrollback, screen))

SB_enter_scrollback == Nav(enter_scrollback(scrollback))

SB_enter_scrollback_keyboard == Nav(enter_scrollback_keyboard(scrollback))

SB_enter_viewer_mode == Nav(enter_viewer_mode(scrollback))

SB_exit_scrollback == Nav(exit_scrollback(scrollback))

SB_start_animated_exit == Nav(start_animated_exit(scrollback).sb)

SB_animate_exit_frame == Nav(animate_exit_frame(scrollback).sb)

SB_toggle_scrollback == Nav(toggle_scrollback(scrollback))

SB_scroll_up == \E n \in ScrollAmounts : Nav(scroll_up(scrollback, n))

SB_scroll_down == \E n \in ScrollAmounts : Nav(scroll_down(scrollback, n))

SB_page_up == Nav(page_up(scrollback))

SB_page_down == Nav(page_down(scrollback))

NextSB ==
    \/ SB_push_line \/ SB_push_screen
    \/ SB_enter_scrollback \/ SB_enter_scrollback_keyboard \/ SB_enter_viewer_mode
    \/ SB_exit_scrollback \/ SB_start_animated_exit \/ SB_animate_exit_frame
    \/ SB_toggle_scrollback
    \/ SB_scroll_up \/ SB_scroll_down \/ SB_page_up \/ SB_page_down

SpecSB == InitSB /\ [][NextSB]_vars

(***************************************************************************)
(* Properties.                                                             *)
(***************************************************************************)
Last(seq) == seq[Len(seq)]

\* the packed form of screen row y
packed_row(s, y) == screen_line_to_cga(s, y)[1]

\* the 25 rows that get_display_line shows
display(sb, s) == [y \in 0..(SCREEN_HEIGHT - 1) |-> get_display_line(sb, y, s)]

mouse_mode(sb) == sb.active /\ ~sb.keyboard_entry

keyboard_mode(sb) == sb.active /\ sb.keyboard_entry

\* C1: whenever process_byte handles a byte for which the parser scrolls the
\* screen (it returns LineScrolled), the packed row 0 of the screen before
\* the byte is the last line of the history after the byte.
C1_ScrollPreCapture ==
    [][(ProcessByte /\ action' = "LineScrolled")
         => /\ scrollback'.history # << >>
            /\ Last(scrollback'.history) = packed_row(screen, 0)]_vars

\* a scroll has captured a painted (non-blank) row 0
C1_Witness ==
    /\ action = "LineScrolled"
    /\ scrollback.history # << >>
    /\ Last(scrollback.history)[1] = 65

\* the last n lines of the history are the packed rows 0..n-1 of screen s
last_lines_are_screen(sb, s, n) ==
    /\ Len(sb.history) >= n
    /\ \A y \in 0..(n - 1) :
          sb.history[Len(sb.history) - n + y + 1] = packed_row(s, y)

\* C2: whenever process_byte handles a byte for which the parser's CSI J
\* dispatch clears the screen (it returns ScreenCleared), the 25 packed rows
\* of the screen before the byte are the last 25 lines of the history after
\* the byte, top to bottom.
C2_ClearPreCapture ==
    [][(ProcessByte /\ action' = "ScreenCleared")
         => last_lines_are_screen(scrollback', screen, SCREEN_HEIGHT)]_vars

\* the mouse-mode anchor applies: active, mouse mode, not animating the
\* exit, scrolled back
anchored(sb) == mouse_mode(sb) /\ ~sb.animating_exit /\ sb.viewport_position > 0

\* the window lies within the history: no displayed row is a screen row
window_in_history(sb) == sb.viewport_position >= SCREEN_HEIGHT

\* C3: while the scrollback is active in mouse mode, not animating the exit,
\* with viewport_position > 0, every displayed row is the same after a
\* push_line as before it, at every history length up to and including
\* max_lines.  Stated for windows that lie within the history, where the
\* live screen (which push_line alone does not scroll) plays no part.
C3_MouseAnchor ==
    [][(SB_push_line /\ anchored(scrollback) /\ window_in_history(scrollback))
         => display(scrollback', screen') = display(scrollback, screen)]_vars

\* C4: whenever process_byte handles a byte that scrolls a line or clears
\* the screen while the scrollback is active in mouse mode, not animating,
\* with viewport_position > 0, every displayed row shows the same content
\* after the byte as before it.
C4_MouseByteArrival ==
    [][(/\ ProcessByte
        /\ action' \in {"LineScrolled", "ScreenCleared"}
        /\ anchored(scrollback))
         => display(scrollback', screen') = display(scrollback, screen)]_vars

\* process_byte pushes lines to the history for this byte
pushes_lines(t, byte) ==
    is_about_to_clear_screen(t, byte) \/ is_about_to_scroll(t, byte)

\* C5 (as stated): whenever process_byte handles a byte that pushes lines to
\* the history while the scrollback is active in keyboard mode, every
\* displayed row shows the same content after the byte as before it, whether
\* the history merely grows or its oldest line is trimmed at max_lines.
C5_KeyboardWindowStaysPut ==
    [][\A s \in next_streams :
          (/\ ProcessByteOf(s)
           /\ keyboard_mode(scrollback)
           /\ pushes_lines(TheTerminal, Head(s)))
            => display(scrollback', screen') = display(scrollback, screen)]_vars

\* the number of lines process_byte pushes for this byte
lines_pushed(t, byte) ==
    (IF is_about_to_clear_screen(t, byte) THEN SCREEN_HEIGHT ELSE 0)
    + (IF is_about_to_scroll(t, byte) THEN 1 ELSE 0)

\* the number of oldest lines the pushes of this byte trim
lines_trimmed(t, byte) ==
    Max(0, Len(t.scrollback.history) + lines_pushed(t, byte)
           - t.scrollback.max_lines)

\* the byte is a printable character written at the bottom-right cell and
\* the window shows the last row of the live screen
writes_shown_cell(t, byte) ==
    /\ byte >= 32
    /\ is_about_to_scroll(t, byte)
    /\ t.scrollback.viewport_position = Len(t.scrollback.history)

\* two displayed lines agree on every cell but the last
same_but_last_cell(a, b) ==
    /\ a # None
    /\ b # None
    /\ \A i \in 1..(LINE_BYTES - 2) : a[1][i] = b[1][i]

\* C5 (amended): whenever process_byte handles a byte that pushes lines to
\* the history while the scrollback is active in keyboard mode, and no more
\* lines are trimmed than viewport_position, every displayed row shows the
\* same content after the byte as before it; except that when the window
\* shows the last row of the live screen and the byte is a character written
\* at the bottom-right cell, row 24 is the same in every cell but that one.
C5_KeyboardWindow ==
    [][\A s \in next_streams :
          (/\ ProcessByteOf(s)
           /\ keyboard_mode(scrollback)
           /\ pushes_lines(TheTerminal, Head(s))
           /\ lines_trimmed(TheTerminal, Head(s)) <= scrollback.viewport_position)
            => \A y \in 0..(SCREEN_HEIGHT - 1) :
                 IF y = SCREEN_HEIGHT - 1 /\ writes_shown_cell(TheTerminal, Head(s))
                 THEN same_but_last_cell(get_display_line(scrollback', y, screen'),
                                         get_display_line(scrollback, y, screen))
                 ELSE get_display_line(scrollback', y, screen')
                        = get_display_line(scrollback, y, screen)]_vars

\* a clear arrived in keyboard mode with a full history: lines were trimmed,
\* viewport_position followed them, and the window still starts at row 'Y'
C5_Witness ==
    /\ keyboard_mode(scrollback)
    /\ action = "ScreenCleared"
    /\ Len(scrollback.history) = scrollback.max_lines
    /\ scrollback.viewport_position = 1
    /\ scrollback.history[2][1] = 89

\* the keys through which handle_key may end scrollback: Escape and Alt+K
exit_key(k) == k[1] = "Escape" \/ (k[1] \in {"k", "K"} /\ k[2])

\* C6: in keyboard mode no scroll_down or page_down call, whether made
\* directly, by ArrowDown or PageDown, or by a wheel-down event, ends
\* keyboard mode (active stays true); a handle_key call that ends it is one
\* for Escape or Alt+K.
C6_KeyboardNoAutoExit ==
    [][keyboard_mode(scrollback) =>
         /\ \A n \in ScrollAmounts \cup {SCREEN_HEIGHT} :
               keyboard_mode(scroll_down(scrollback, n))
         /\ keyboard_mode(page_down(scrollback))
         /\ \A d \in WheelDeltas :
               (d > 0 /\ Event(handle_wheel(TheTerminal, d).t))
                 => keyboard_mode(scrollback')
         /\ \A k \in KeyEvents :
               (Event(handle_key(TheTerminal, k[1], k[2]).t)
                /\ ~keyboard_mode(scrollback'))
                 => exit_key(k)]_vars

\* keyboard mode, scrolled up and down again to the bottom of the buffer
\* (where a mouse-mode scroll down would have exited), after lines arrived
C6_Witness ==
    /\ keyboard_mode(scrollback)
    /\ events = MaxEvents
    /\ Len(scrollback.history) > 1
    /\ scrollback.viewport_position = Len(scrollback.history)

\* C7: in every reachable state in which is_viewer_mode() is true, no
\* scroll_down or page_down call, of any size, takes active from true to
\* false.  Stated for states that are not animating the exit, so that the
\* exit is not one that was asked for.
C7_ViewerNoAutoExit ==
    [][(/\ SB_scroll_down \/ SB_page_down
        /\ is_viewer_mode(scrollback)
        /\ is_active(scrollback)
        /\ ~is_animating_exit(scrollback))
         => is_active(scrollback')]_vars

\* C8: in every state reachable by ScrollbackBuffer operations, if active is
\* false then viewport_position is 0 and animating_exit is false.
C8_InactiveIsReset ==
    ~scrollback.active =>
        scrollback.viewport_position = 0 /\ ~scrollback.animating_exit

\* scrollback has been left again after the history filled up
C8_Witness ==
    /\ ~scrollback.active
    /\ events = MaxOps
    /\ Len(scrollback.history) = scrollback.max_lines

\* C9: in every reachable ScrollbackBuffer state, viewer mode implies that
\* the buffer is active and that should_show_indicators() is false; and
\* should_show_indicators() is true exactly when the buffer is active and
\* not in viewer mode.
C9_ViewerHidesIndicators ==
    /\ is_viewer_mode(scrollback) =>
          is_active(scrollback) /\ ~should_show_indicators(scrollback)
    /\ should_show_indicators(scrollback)
          <=> (is_active(scrollback) /\ ~is_viewer_mode(scrollback))

\* viewer mode over a non-empty history, scrolled away from the top
C9_Witness ==
    /\ is_viewer_mode(scrollback)
    /\ is_active(scrollback)
    /\ scrollback.viewport_position > 0
    /\ ~should_show_indicators(scrollback)

\* C10: under every byte stream and every interleaving with navigation
\* events, the history never holds more than max_lines lines.
C10_HistoryBound == Len(scrollback.history) <= scrollback.max_lines

\* the history is full and its oldest lines have been trimmed: painted rows
\* A..W are gone and row X is the oldest line
C10_Witness ==
    /\ Len(scrollback.history) = scrollback.max_lines
    /\ scrollback.history[1][1] = 88

(***************************************************************************)
(* SpecFifo: a ScrollbackBuffer with a small max_lines receives a fixed    *)
(* sequence of lines through push_line, as test_max_lines_trimming does.   *)
(* pending holds the characters of the whole sequence (line i is filled    *)
(* with pending[i]); fed counts the lines pushed so far.                   *)
(***************************************************************************)
\* number of lines in the sequence
FifoPushes == 5
\* largest max_lines handed to with_max_lines
FifoMaxLines == 3

RECURSIVE seqs_of(_, _)
seqs_of(S, n) ==
    IF n = 0 THEN {<< >>}
    ELSE {Append(q, c) : q \in seqs_of(S, n - 1), c \in S}

InitFifo ==
    /\ screen = Screen_new
    /\ parser = AnsiParser_new
    /\ scrollback \in {with_max_lines(m) : m \in 0..FifoMaxLines}
    /\ action = "None"
    /\ pending \in seqs_of(PushChars, FifoPushes)
    /\ fed = 0
    /\ events = 0

Fifo_push_line ==
    /\ fed < Len(pending)
    /\ scrollback' = push_line(scrollback, line_of(pending[fed + 1]))
    /\ fed' = fed + 1
    /\ UNCHANGED <<screen, parser, action, pending, events>>

NextFifo == Fifo_push_line

SpecFifo == InitFifo /\ [][NextFifo]_vars

\* C11: after n push_line calls the history consists of exactly the last
\* min(n, max_lines) pushed lines, packed, in push order.
C11_BoundedFifo ==
    LET k == Min(fed, scrollback.max_lines)
    IN scrollback.history
         = [i \in 1..k |-> pack_cells(line_of(pending[fed - k + i]))]

\* more lines were pushed than max_lines and the lines kept differ
C11_Witness ==
    /\ fed = FifoPushes
    /\ scrollback.max_lines >= 2
    /\ Len(scrollback.history) = scrollback.max_lines
    /\ scrollback.history[1] # scrollback.history[2]

(***************************************************************************)
(* SpecCursor: a fresh Terminal receives cursor-moving input one byte at a *)
(* time: CSI A/B/C/D/H/f with absent, zero, small and oversized            *)
(* parameters, ESC[2J, newline, carriage return, a printable byte, an      *)
(* ignored control byte, an unknown escape and an unterminated CSI.        *)
(***************************************************************************)
\* parameter strings of the relative moves: none, "0", "2", "99"
MoveParams == { << >>, <<48>>, <<50>>, <<57, 57>> }

\* final bytes of the relative moves: A (up), B (down), C (forward), D (back)
MoveCommands == {65, 66, 67, 68}

CursorStreams ==
    { <<ESC, 91>> \o ps \o <<c>> : ps \in MoveParams, c \in MoveCommands }
    \cup { <<ESC, 91, 72>>,
           <<ESC, 91, 57, 57, 59, 57, 57, 72>>,
           <<ESC, 91, 53, 59, 50, 102>>,
           <<ESC, 91, 59, 50, 72>>,
           <<ESC, 91, 48, 59, 48, 72>>,
           <<ESC, 91, 50, 74>>,
           <<10>>, <<13>>, <<32>>, <<8>>,
           <<ESC, 32>>,
           <<ESC, 91, 53>> }

\* Terminal::process_byte on the next byte of the cursor stream in flight
ProcessCursorByte ==
    \E s \in (IF pending = << >> THEN CursorStreams ELSE {pending}) :
        ProcessByteOf(s)

NextCursor == ProcessCursorByte

SpecCursor == Init /\ [][NextCursor]_vars

\* C12: after any sequence of process_byte calls the cursor lies on the
\* screen: 0 <= x < width and 0 <= y < 25.
C12_CursorInBounds ==
    /\ cursor_pos(screen)[1] >= 0
    /\ cursor_pos(screen)[1] < dimensions(screen)[1]
    /\ cursor_pos(screen)[2] >= 0
    /\ cursor_pos(screen)[2] < SCREEN_HEIGHT

\* the cursor sits in the bottom-right corner after a completed sequence
C12_Witness ==
    /\ fed >= 1
    /\ pending = << >>
    /\ is_in_normal_state(parser)
    /\ cursor_pos(screen) = <<LAST_COLUMN, SCREEN_HEIGHT - 1>>

(***************************************************************************)
(* SpecBottomLine: the bottom-line scroll scenario.  A fresh Terminal      *)
(* receives ESC[25;1H, then one printable byte for every column of the     *)
(* screen (80 in the program, SCREEN_WIDTH here), then a newline, one      *)
(* byte at a time.                                                         *)
(***************************************************************************)
\* printable bytes: space, a letter, the highest byte value
Printables == {32, 65, 255}

BottomLineStreams ==
    { <<ESC, 91, 50, 53, 59, 49, 72>> \o q \o <<10>> :
        q \in seqs_of(Printables, SCREEN_WIDTH) }

InitBottomLine ==
    /\ screen = with_scrollback_lines(MaxLines).screen
    /\ parser = with_scrollback_lines(MaxLines).parser
    /\ scrollback = with_scrollback_lines(MaxLines).scrollback
    /\ action = "None"
    /\ pending \in BottomLineStreams
    /\ fed = 0
    /\ events = 0

ProcessBottomLineByte ==
    /\ pending # << >>
    /\ ProcessByteOf(pending)

NextBottomLine == ProcessBottomLineByte

SpecBottomLine == InitBottomLine /\ [][NextBottomLine]_vars

\* C13 (as stated): from a fresh terminal, after ESC[25;1H, a full row of
\* printable bytes and one newline, the history holds exactly one line, the
\* packed row that was row 0 before the newline.
C13_BottomLineOneLine ==
    [][(ProcessBottomLineByte /\ pending = <<10>>)
         => /\ Len(scrollback'.history) = 1
            /\ Last(scrollback'.history) = packed_row(screen, 0)]_vars

\* C13 (amended): from a fresh terminal, after ESC[25;1H, a full row of
\* printable bytes and one newline, the history holds exactly two lines: the
\* first is the (blank) row 0 captured when the last printable byte filled
\* the bottom-right cell and scrolled the screen, the second is the packed
\* row that was row 0 before the newline.
C13_BottomLineTwoLines ==
    [][(ProcessBottomLineByte /\ pending = <<10>>)
         => /\ Len(scrollback.history) = 1
            /\ Len(scrollback'.history) = 2
            /\ scrollback'.history[1] = packed_row(Screen_new, 0)
            /\ scrollback'.history[2] = packed_row(screen, 0)]_vars

\* the scenario has run to its end: the row of letters written on row 24
\* has been scrolled up twice
C13_Witness ==
    /\ pending = << >>
    /\ action = "LineScrolled"
    /\ Len(scrollback.history) = 2
    /\ \A x \in 0..LAST_COLUMN : get_cell(screen, x, SCREEN_HEIGHT - 3)[1].ch = 65

\* the line counts of the direct navigation calls: scroll_up / scroll_down
\* by 1 and 3, page_up / page_down by 25
NavAmounts == ScrollAmounts \cup {SCREEN_HEIGHT}

\* C14: with a non-empty history and an inactive buffer, scroll_up(n) enters
\* mouse mode with viewport_position = min(n, history.len()); in mouse mode
\* scroll_up(n) adds n, capped at history.len(); in mouse mode scroll_down(n)
\* exits (active false, position 0) when viewport_position <= n and
\* subtracts n otherwise.  With at least 3 lines of history, wheel -120 from
\* idle gives position 3 and wheel +120 then exits.
C14_MouseNavigation ==
    [][/\ \A n \in NavAmounts :
            /\ (/\ Nav(scroll_up(scrollback, n))
                /\ ~scrollback.active
                /\ scrollback.history # << >>)
                 => /\ mouse_mode(scrollback')
                    /\ scrollback'.viewport_position
                         = Min(n, Len(scrollback.history))
            /\ (Nav(scroll_up(scrollback, n)) /\ mouse_mode(scrollback))
                 => /\ mouse_mode(scrollback')
                    /\ scrollback'.viewport_position
                         = Min(scrollback.viewport_position + n,
                               Len(scrollback.history))
            /\ (Nav(scroll_down(scrollback, n)) /\ mouse_mode(scrollback))
                 => IF scrollback.viewport_position <= n
                    THEN /\ ~scrollback'.active
                         /\ scrollback'.viewport_position = 0
                    ELSE /\ mouse_mode(scrollback')
                         /\ scrollback'.viewport_position
                              = scrollback.viewport_position - n
       /\ (~scrollback.active /\ Len(scrollback.history) >= 3)
            => LET t1 == handle_wheel(TheTerminal, -120).t
               IN /\ mouse_mode(t1.scrollback)
                  /\ t1.scrollback.viewport_position = 3
                  /\ ~handle_wheel(t1, 120).t.scrollback.active]_vars

\* a single navigation call, a scroll up from idle by more lines than the
\* history holds, left the buffer in mouse mode at the top of the history
C14_Witness ==
    /\ events = 1
    /\ mouse_mode(scrollback)
    /\ Len(scrollback.history) = 2
    /\ scrollback.viewport_position = 2

\* the 25 rows of the live screen, packed
live_rows(s) == [y \in 0..(SCREEN_HEIGHT - 1) |-> screen_line_to_cga(s, y)]

\* C15: Alt+K ('k' or 'K') from idle with a non-empty history puts the
\* scrollback in active keyboard mode with viewport_position = history.len(),
\* so that the 25 displayed rows are exactly the rows of the live screen;
\* Alt+K pressed again, without moving, exits scrollback.
C15_AltKEntersAtLiveScreen ==
    [][\A k \in {"k", "K"} :
          (/\ Event(handle_key(TheTerminal, k, TRUE).t)
           /\ ~scrollback.active
           /\ scrollback.history # << >>)
            => /\ keyboard_mode(scrollback')
               /\ scrollback'.viewport_position = Len(scrollback'.history)
               /\ display(scrollback', screen') = live_rows(screen')
               /\ \A k2 \in {"k", "K"} :
                     ~handle_key(Terminal(screen', parser', scrollback'),
                                 k2, TRUE).t.scrollback.active]_vars

\* Alt+K was the only event: keyboard mode at the live screen, which shows
\* the painted row 'A' on top, over a non-empty history
C15_Witness ==
    /\ events = 1
    /\ keyboard_mode(scrollback)
    /\ scrollback.history # << >>
    /\ scrollback.viewport_position = Len(scrollback.history)
    /\ get_display_line(scrollback, 0, screen) # None
    /\ get_display_line(scrollback, 0, screen)[1][1] \in 65..90

\* the keydown listener stops the event (prevent_default, stop_propagation),
\* so that it reaches nothing else: always for Alt+Enter, else when
\* handle_key returns true
keydown_stopped(t, key, alt_key) ==
    IF key = "Enter" /\ alt_key THEN TRUE ELSE handle_key(t, key, alt_key).ret

\* the keys that navigate or leave the scrollback while it is active
NavigationKeys == {"Escape", "ArrowUp", "ArrowDown", "PageUp", "PageDown"}

\* C16: handle_key returns true exactly when the key is 'k' or 'K' with alt
\* or the scrollback is active at the time of the call; while active, a key
\* other than Escape, ArrowUp, ArrowDown, PageUp, PageDown and Alt+K leaves
\* the terminal unchanged; when not handled the terminal is unchanged; and a
\* key for which handle_key returns true is stopped by the listener.
C16_HandleKeyContract ==
    \A key \in Keys \cup {"Enter"} : \A alt_key \in BOOLEAN :
        LET r == handle_key(TheTerminal, key, alt_key)
            alt_k == key \in {"k", "K"} /\ alt_key
        IN /\ r.ret <=> (alt_k \/ is_active(scrollback))
           /\ (is_active(scrollback) /\ ~alt_k /\ key \notin NavigationKeys)
                => r.t = TheTerminal
           /\ ~r.ret => r.t = TheTerminal
           /\ r.ret => keydown_stopped(TheTerminal, key, alt_key)

\* keyboard mode one line above the live screen after the third key event:
\* keys have been handled while the scrollback was active
C16_Witness ==
    /\ events = MaxEvents
    /\ keyboard_mode(scrollback)
    /\ scrollback.viewport_position + 1 = Len(scrollback.history)

\* wheel deltas on which the contract of handle_wheel is evaluated: zero,
\* multiples of 40, values just below and above them, a large one
ContractDeltas ==
    {-1000, -121, -120, -41, -40, -1, 0, 1, 39, 40, 41, 100, 120, 121, 1000}

\* ceil(|d| / 40): the least m with 40 * m >= |d|
ceil_div_40(d) == CHOOSE m \in 0..Abs(d) : 40 * m >= Abs(d) /\ 40 * (m - 1) < Abs(d)

\* C17: handle_wheel(delta_y) uses n = max(1, ceil(|delta_y| / 40)); for
\* delta_y < 0 it calls scroll_up(n) and returns true; for delta_y > 0 it
\* returns true exactly when the scrollback was active before the call, and
\* then has called scroll_down(n), also when that call exits scrollback; for
\* delta_y = 0 it returns true exactly when active and changes nothing.
C17_HandleWheelContract ==
    \A d \in ContractDeltas :
        LET r == handle_wheel(TheTerminal, d)
            n == Max(1, ceil_div_40(d))
            was_active == is_active(scrollback)
        IN IF d < 0
           THEN /\ r.ret
                /\ r.t = [TheTerminal EXCEPT !.scrollback = scroll_up(@, n)]
           ELSE IF d > 0
           THEN /\ r.ret <=> was_active
                /\ r.t = IF was_active
                         THEN [TheTerminal EXCEPT !.scrollback = scroll_down(@, n)]
                         ELSE TheTerminal
           ELSE /\ r.ret <=> was_active
                /\ r.t = TheTerminal

\* one wheel event has put the scrollback in mouse mode three lines back
C17_Witness ==
    /\ events = 1
    /\ mouse_mode(scrollback)
    /\ scrollback.viewport_position = 3
    /\ Len(scrollback.history) >= 3

C19_ViewerClickStays ==
    is_viewer_mode(scrollback) =>
        LET r == handle_click(TheTerminal)
        IN /\ is_active(r.t.scrollback)
           /\ ~is_animating_exit(r.t.scrollback)

\* The events that are said to cancel the exit animation, each as the
\* terminal a handler leaves behind: ArrowUp and PageUp (with or without
\* Alt), Alt+K in either case, and a wheel event of the given deltas.
scroll_up_keys == {"ArrowUp", "PageUp"}

after_cancel_events(t, deltas) ==
    {handle_key(t, k, a).t : k \in scroll_up_keys, a \in BOOLEAN}
        \cup {handle_key(t, k, TRUE).t : k \in {"k", "K"}}
        \cup {handle_wheel(t, d).t : d \in deltas}

cancelled(t) ==
    ~is_animating_exit(t.scrollback) /\ is_active(t.scrollback)

\* C20 (as stated): while animating_exit is true, any scroll-up key (ArrowUp,
\* PageUp), any wheel event in either direction, or Alt+K leaves
\* animating_exit false with the scrollback still active.
C20_AnyWheelCancels ==
    is_animating_exit(scrollback) =>
        \A t \in after_cancel_events(TheTerminal, WheelDeltas) : cancelled(t)

\* C20 (amended): while animating_exit is true, any scroll-up key (ArrowUp,
\* PageUp), any wheel event that scrolls up (delta_y < 0), or Alt+K leaves
\* animating_exit false with the scrollback still active.
C20_ScrollUpCancels ==
    is_animating_exit(scrollback) =>
        \A t \in after_cancel_events(TheTerminal,
                                      {d \in WheelDeltas : d < 0}) :
            cancelled(t)

\* an exit animation started by an earlier event is in progress, in a state
\* where one wheel event scrolling down would keep it running and another
\* would end it by leaving scrollback
C20_Witness ==
    /\ is_animating_exit(scrollback)
    /\ events >= 1
    /\ \E d \in WheelDeltas :
           /\ d > 0
           /\ is_animating_exit(handle_wheel(TheTerminal, d).t.scrollback)
    /\ \E d \in WheelDeltas :
           /\ d > 0
           /\ ~is_active(handle_wheel(TheTerminal, d).t.scrollback)

(***************************************************************************)
(* SpecAnim: the exit animation.  The buffer starts with some history and  *)
(* in scrollback, reached by the wheel, by Alt+K and scrolling up, or by   *)
(* enter_viewer_mode.  start_animated_exit is called once; then frames run *)
(* while lines keep being pushed.  Here pending holds the offset with      *)
(* which the animation started, events counts the frames run since, and    *)
(* fed the lines pushed since.                                             *)
(***************************************************************************)
\* most lines in the history when the animation starts
AnimLines == 14
\* lines pushed while the animation runs
AnimPushes == 3

RECURSIVE push_lines(_, _, _)
push_lines(sb, ch, n) ==
    IF n = 0 THEN sb ELSE push_lines(push_line(sb, line_of(ch)), ch, n - 1)

\* a buffer holding h lines, with room for max_lines
filled(max_lines, h) == push_lines(with_max_lines(max_lines), 48, h)

\* the active buffers the animation starts from: full (the next push trims)
\* or with room left, in mouse, keyboard or viewer mode
AnimStartsOf(m, h) ==
    LET sb == filled(m, h)
    IN {scroll_up(sb, n) : n \in 1..h}
         \cup {scroll_up(enter_scrollback_keyboard(sb), n) : n \in 0..h}
         \cup {enter_viewer_mode(sb)}

AnimStarts ==
    UNION { AnimStartsOf(h, h) \cup AnimStartsOf(MaxLines, h) : h \in 1..AnimLines }

InitAnim ==
    /\ screen = process_bytes(with_scrollback_lines(MaxLines), PaintUpper).screen
    /\ parser = AnsiParser_new
    /\ scrollback \in AnimStarts
    /\ action = "None"
    /\ pending = << >>
    /\ fed = 0
    /\ events = 0

Anim_start_animated_exit ==
    LET r == start_animated_exit(scrollback)
    IN /\ pending = << >>
       /\ scrollback' = r.sb
       /\ pending' = IF r.ret THEN <<r.sb.viewport_position>> ELSE pending
       /\ UNCHANGED <<screen, parser, action, fed, events>>

\* the frame callback: it runs while the animation is running
Anim_animate_exit_frame ==
    /\ is_animating_exit(scrollback)
    /\ scrollback' = animation_frame(TheTerminal).scrollback
    /\ events' = events + 1
    /\ UNCHANGED <<screen, parser, action, pending, fed>>

\* a line scrolls off the screen between two frames
Anim_push_line ==
    \E c \in PushChars :
        /\ is_animating_exit(scrollback)
        /\ fed < AnimPushes
        /\ scrollback' = push_line(scrollback, line_of(c))
        /\ fed' = fed + 1
        /\ UNCHANGED <<screen, parser, action, pending, events>>

NextAnim == Anim_start_animated_exit \/ Anim_animate_exit_frame \/ Anim_push_line

SpecAnim == InitAnim /\ [][NextAnim]_vars

\* ceil(v / 6)
frames_needed(v) == (v + LINES_PER_FRAME - 1) \div LINES_PER_FRAME

\* C21: once start_animated_exit has returned true with offset v, each
\* animate_exit_frame lowers viewport_position by 6, and the buffer becomes
\* inactive, the frame returning false, after exactly ceil(v / 6) frames,
\* however many lines are pushed (and trimmed) between the frames.
C21_ExitConverges ==
    pending # << >> =>
        LET v == pending[1]
            total == frames_needed(v)
        IN /\ events <= total
           /\ events < total =>
                /\ is_active(scrollback) /\ is_animating_exit(scrollback)
                /\ scrollback.viewport_position = v - LINES_PER_FRAME * events
                /\ animate_exit_frame(scrollback).ret = (events + 1 < total)
           /\ events = total =>
                /\ ~is_active(scrollback) /\ ~is_animating_exit(scrollback)

\* an animation of three frames has ended, after AnimPushes lines were
\* pushed into a full history while it ran
C21_Witness ==
    /\ pending # << >>
    /\ frames_needed(pending[1]) = 3
    /\ events = 3
    /\ fed = AnimPushes
    /\ Len(scrollback.history) = scrollback.max_lines
    /\ ~is_active(scrollback)

(***************************************************************************)
(* SpecPace: render_ansi_async (lib.rs), the loop that feeds the content   *)
(* to the terminal.  Here pending holds the arguments of the call,         *)
(* [content, bps] with bps an Option<u32>; fed is offset, the number of    *)
(* bytes handed to process_bytes so far; events counts the renders.        *)
(***************************************************************************)
\* longest content
PaceMaxLen == 83

\* the content: ESC[2J and the painted rows, repeated up to the length n
PaceBase == <<ESC, 91, 50, 74>> \o PaintUpper

PaceContent(n) == [i \in 1..n |-> PaceBase[((i - 1) % Len(PaceBase)) + 1]]

PaceLengths == {0, 1, 2, 39, 40, 41, 80, 81, PaceMaxLen - 1, PaceMaxLen}

\* options.bps: absent, zero, or a rate
PaceBps == {None, Some(0), Some(1), Some(239), Some(240), Some(479), Some(480),
            Some(2400), Some(9600), Some(9839), Some(19200)}

\* mutant: the chunk is a second's worth of bytes, not a frame's
bytes_per_frame_of_a_second(bps) == Max(bps \div 8, 1)

\* (bytes_per_second / target_fps).max(1.0) as usize, where bytes_per_second
\* is bps / 8.0 and target_fps is 30.0.  bps / 8.0 is exact; a quotient by
\* 30.0 that is not a whole number is at least 1/240 away from one, far more
\* than the rounding of the division, so the truncation gives bps div 240.
bytes_per_frame(bps) == Max(bps \div 240, 1)

paced(bps) == bps # None /\ bps[1] > 0

InitPace ==
    /\ screen = with_scrollback_lines(MaxLines).screen
    /\ parser = with_scrollback_lines(MaxLines).parser
    /\ scrollback = with_scrollback_lines(MaxLines).scrollback
    /\ action = "None"
    /\ pending \in [content : {PaceContent(n) : n \in PaceLengths}, bps : PaceBps]
    /\ fed = 0
    /\ events = 0

\* one turn of the while loop: process a chunk, render, advance offset
Pace_chunk ==
    /\ paced(pending.bps)
    /\ fed < Len(pending.content)
    /\ LET chunk_end == Min(fed + bytes_per_frame(pending.bps[1]),
                            Len(pending.content))
       IN /\ SetTerminal(process_bytes(TheTerminal,
                                       SubSeq(pending.content, fed + 1, chunk_end)))
          /\ fed' = chunk_end
    /\ events' = events + 1
    /\ UNCHANGED <<action, pending>>

\* no bps: process the whole content, then render once
Pace_instant ==
    /\ ~paced(pending.bps)
    /\ events = 0
    /\ SetTerminal(process_bytes(TheTerminal, pending.content))
    /\ fed' = Len(pending.content)
    /\ events' = 1
    /\ UNCHANGED <<action, pending>>

NextPace == Pace_chunk \/ Pace_instant

SpecPace == InitPace /\ [][NextPace]_vars

ceil_div(n, d) == (n + d - 1) \div d

\* the paced loop has run to the end of the content
pace_complete == paced(pending.bps) /\ fed = Len(pending.content)

\* C22: with a positive bps the paced loop processes the input in consecutive
\* in-order chunks of max(1, floor((bps / 8) / 30)) bytes, rendering once
\* after each chunk: after k renders it has processed the first
\* min(k * chunk, N) bytes, each once.  It terminates: it takes at most
\* ceil(N / chunk) turns, and it is at the end of the content, all N bytes
\* processed, exactly when it has rendered ceil(N / chunk) times
\* (ceil(N / 40) at bps = 9600).
C22_BpsPacing ==
    paced(pending.bps) =>
        LET N == Len(pending.content)
            chunk == Max(1, (pending.bps[1] \div 8) \div 30)
        IN /\ fed = Min(events * chunk, N)
           /\ TheTerminal = process_bytes(with_scrollback_lines(MaxLines),
                                          SubSeq(pending.content, 1, fed))
           /\ events <= ceil_div(N, chunk)
           /\ pace_complete <=> events = ceil_div(N, chunk)
           /\ (pace_complete /\ pending.bps[1] = 9600) => events = ceil_div(N, 40)

\* a content of more than 80 bytes has been paced at 9600 bps to completion
\* in three renders
C22_Witness ==
    /\ paced(pending.bps) /\ pending.bps[1] = 9600
    /\ Len(pending.content) > 80
    /\ pace_complete
    /\ events = 3

(***************************************************************************)
(* SpecSgr: a fresh Terminal receives SGR sequences (CSI ... m with no,    *)
(* one or two parameters, and one with three), malformed and unknown       *)
(* sequences, and printable bytes, one byte at a time.                     *)
(***************************************************************************)
\* SGR parameters: reset, bold, blink, reverse, colours of each of the four
\* ranges, and a value outside every range (38)
SgrParams == {0, 1, 5, 7, 31, 43, 91, 104, 38}

\* the decimal digits of n < 1000 as ASCII bytes
digits_of(n) ==
    IF n < 10 THEN <<48 + n>>
    ELSE IF n < 100 THEN <<48 + (n \div 10), 48 + (n % 10)>>
    ELSE <<48 + (n \div 100), 48 + ((n \div 10) % 10), 48 + (n % 10)>>

\* parameters of the sequences with two parameters
SgrPairParams == {0, 1, 5, 7, 31, 43, 38}

\* the ends of the four colour ranges and the values next to them
SgrEdgeParams == {29, 30, 37, 39, 40, 47, 48, 89, 90, 97, 98, 99, 100, 107, 108}

SgrStreams ==
    { <<ESC, 91, 109>>, <<ESC, 91, 59, 109>>,
      <<ESC, 91, 51, 49, 59, 52, 51, 59, 55, 109>> }
    \cup { <<ESC, 91>> \o digits_of(a) \o <<109>> :
             a \in SgrParams \cup SgrEdgeParams }
    \cup { <<ESC, 91>> \o digits_of(a) \o <<59>> \o digits_of(b) \o <<109>> :
             a \in SgrPairParams, b \in SgrPairParams }

\* printable bytes written between the sequences
SgrPrintables == {65, 219}

\* malformed and unknown sequences: ESC followed by a byte other than '[';
\* CSI ended by an unknown letter, by '?', by a control byte, by ESC, with
\* and without parameters; the unimplemented K
MalformedStreams ==
    { <<ESC, 65>>, <<ESC, ESC>>, <<ESC, 10>>, <<ESC, 55>>,
      <<ESC, 91, 122>>, <<ESC, 91, 49, 59, 51, 49, 122>>,
      <<ESC, 91, 63>>, <<ESC, 91, 10>>, <<ESC, 91, 55, ESC>>,
      <<ESC, 91, 32>>, <<ESC, 91, 50, 75>> }

SgrByteStreams ==
    SgrStreams \cup MalformedStreams \cup { <<c>> : c \in SgrPrintables }

\* number of streams delivered in one behaviour of SpecSgr
SgrFeeds == 2

\* Terminal::process_byte on the next byte of the stream in flight
ProcessSgrByte ==
    \E s \in (IF pending = << >> THEN SgrByteStreams ELSE {pending}) :
        /\ pending = << >> => fed < SgrFeeds
        /\ ProcessByteOf(s)

NextSgr == ProcessSgrByte

SpecSgr == Init /\ [][NextSgr]_vars

\* the cell that holds what a byte written at (x, y) left there: the write
\* at the bottom-right corner scrolls, which moves the cell one row up
written_cell(r, x, y) ==
    IF r.action = "LineScrolled" THEN get_cell(r.screen, x, y - 1)
    ELSE get_cell(r.screen, x, y)

\* C23: a printable byte written in Normal state stores a cell with
\* fg = (reverse ? bg_attr : fg_attr), raised by 8 if bold and below 8, and
\* bg = (reverse ? fg_attr : bg_attr), raised by 8 if blink and below 8, in
\* every reachable SGR state; ESC[31;44mX gives fg=1,bg=4, ESC[1;32mA gives
\* fg=10,bg=0 and ESC[31;43;7mZ gives fg=3,bg=1 in cell (0,0) of a fresh
\* terminal.
C23_EffectiveColours ==
    /\ is_in_normal_state(parser) =>
          \A ch \in Printables :
              LET fg_attr == parser.current_fg
                  bg_attr == parser.current_bg
                  fg_eff == IF parser.reverse THEN bg_attr ELSE fg_attr
                  bg_eff == IF parser.reverse THEN fg_attr ELSE bg_attr
                  fg == IF parser.bold /\ fg_eff < 8 THEN fg_eff + 8 ELSE fg_eff
                  bg == IF parser.blink /\ bg_eff < 8 THEN bg_eff + 8 ELSE bg_eff
                  r == AnsiParser_process_byte(parser, ch, screen)
              IN written_cell(r, cursor_pos(screen)[1], cursor_pos(screen)[2])
                     = Some(Cell(ch, fg, bg))
    /\ fed = 0 =>
          LET cell00(bytes) == get_cell(process_bytes(TheTerminal, bytes).screen, 0, 0)
          IN /\ cell00(<<ESC, 91, 51, 49, 59, 52, 52, 109, 88>>) = Some(Cell(88, 1, 4))
             /\ cell00(<<ESC, 91, 49, 59, 51, 50, 109, 65>>) = Some(Cell(65, 10, 0))
             /\ cell00(<<ESC, 91, 51, 49, 59, 52, 51, 59, 55, 109, 90>>)
                    = Some(Cell(90, 3, 1))

\* a byte has been written after ESC[31;43;7m: the cell shows the colours
\* swapped
C23_Witness ==
    /\ parser.reverse /\ parser.current_fg = 1 /\ parser.current_bg = 3
    /\ pending = << >>
    /\ fed = 2
    /\ get_cell(screen, 0, 0) = Some(Cell(65, 3, 1))

\* the SGR style of a parser
style(p) ==
    [fg |-> p.current_fg, bg |-> p.current_bg,
     bold |-> p.bold, blink |-> p.blink, reverse |-> p.reverse]

style_at_reset == [fg |-> 7, bg |-> 0, bold |-> FALSE, blink |-> FALSE, reverse |-> FALSE]

\* the effect of one SGR parameter v on the style st
sgr_effect(st, v) ==
    CASE v = 0 -> style_at_reset
      [] v = 1 -> [st EXCEPT !.bold = TRUE]
      [] v = 5 -> [st EXCEPT !.blink = TRUE]
      [] v = 7 -> [st EXCEPT !.reverse = TRUE]
      [] v \in 30..37 -> [st EXCEPT !.fg = v - 30]
      [] v \in 40..47 -> [st EXCEPT !.bg = v - 40]
      [] v \in 90..97 -> [st EXCEPT !.fg = v - 90 + 8]
      [] v \in 100..107 -> [st EXCEPT !.bg = v - 100 + 8]
      [] OTHER -> st

\* the effects of the parameters vs, applied left to right
RECURSIVE sgr_effects(_, _)
sgr_effects(st, vs) ==
    IF vs = << >> THEN st ELSE sgr_effects(sgr_effect(st, Head(vs)), Tail(vs))

\* the parameters of the CSI sequence in progress: those stored, then the
\* one whose digits are being accumulated
params_on_wire(p) ==
    p.params \o (IF p.current_param = << >> THEN << >>
                 ELSE <<digits_value(p.current_param)>>)

EndBytes ==
    {0, 7, 8, 10, 13, 27, 32, 47, 48, 57, 58, 59, 60, 63, 64,
     65, 66, 67, 68, 69, 71, 72, 73, 74, 75, 76, 91, 101, 102, 103,
     108, 109, 110, 122, 127, 128, 219, 255}

\* the command bytes handle_csi_command knows: H f A B C D J K m
KnownCommands == {72, 102, 65, 66, 67, 68, 74, 75, 109}

\* r is the outcome of a byte that left cells, cursor, style and history as
\* they were and reported no action
byte_discarded(r) ==
    /\ r.t.screen = screen
    /\ style(r.t.parser) = style(parser)
    /\ r.t.scrollback = scrollback
    /\ r.action = "None"

\* C25: malformed or unknown sequences are never fatal and never leak to the
\* screen: in Escape state any byte other than '[' returns the parser to
\* Normal; in Csi state any byte that is not a digit or ';' ends the
\* sequence and returns the parser to Normal; for an unknown command byte
\* the screen cells, the cursor and the SGR style are unchanged and the
\* terminating byte is not written as a character.
C25_MalformedDiscarded ==
    /\ parser.state = "Escape" =>
          \A b \in EndBytes \ {91} :
              LET r == Terminal_process_byte(TheTerminal, b)
              IN r.t.parser.state = "Normal" /\ byte_discarded(r)
    /\ parser.state = "Csi" =>
          \A b \in EndBytes :
              ~(is_ascii_digit(b) \/ b = 59) =>
                  LET r == Terminal_process_byte(TheTerminal, b)
                  IN /\ r.t.parser.state = "Normal"
                     /\ b \notin KnownCommands => byte_discarded(r)

\* after a printable byte was written, ESC [ 1 ; 3 1 has arrived and the
\* unknown command byte z is next
C25_Witness ==
    /\ fed = 2
    /\ parser.state = "Csi"
    /\ parser.params = <<1>> /\ parser.current_param = <<51, 49>>
    /\ pending = <<122>>
    /\ get_cell(screen, 0, 0) = Some(Cell(65, 7, 0))

(***************************************************************************)
(* SpecCga: the packed form of a cell.  A cell is packed by cell_to_cga    *)
(* and unpacked by cga_to_cell.  Here pending holds the cell, then the     *)
(* cell and its two bytes, then the cell, the bytes and the cell read      *)
(* back; fed counts the conversions done.                                  *)
(***************************************************************************)
\* the cells with 4-bit colours
CgaCells == { Cell(ch, fg, bg) : ch \in 0..255, fg \in 0..15, bg \in 0..15 }

InitCga ==
    /\ screen = Screen_new
    /\ parser = AnsiParser_new
    /\ scrollback = with_max_lines(MaxLines)
    /\ action = "None"
    /\ pending \in { <<c>> : c \in CgaCells }
    /\ fed = 0
    /\ events = 0

Cga_cell_to_cga ==
    /\ fed = 0
    /\ pending' = Append(pending, cell_to_cga(pending[1]))
    /\ fed' = 1
    /\ UNCHANGED <<screen, parser, scrollback, action, events>>

Cga_cga_to_cell ==
    /\ fed = 1
    /\ pending' = Append(pending, cga_to_cell(pending[2]))
    /\ fed' = 2
    /\ UNCHANGED <<screen, parser, scrollback, action, events>>

NextCga == Cga_cell_to_cga \/ Cga_cga_to_cell

SpecCga == InitCga /\ [][NextCga]_vars

\* C26: for every cell c with fg and bg in 0..15 and any ch in 0..255, the
\* packed form is [ch, (bg << 4) | fg] and cga_to_cell(cell_to_cga(c)) = c.
C26_PackedRoundTrip ==
    /\ fed >= 1 =>
          pending[2] = <<pending[1].ch, pending[1].bg * 16 + pending[1].fg>>
    /\ fed = 2 => pending[3] = pending[1]

\* the cell of test_cell_to_cga_roundtrip ('A', fg 14, bg 4) has been packed
\* to [0x41, 0x4E] and read back
C26_Witness ==
    /\ fed = 2
    /\ pending[1] = Cell(65, 14, 4)
    /\ pending[2] = <<65, 78>>
    /\ pending[3] = Cell(65, 14, 4)

\* what the scrollback must hold after a byte for which the parser's dispatch
\* returned the action a: one more line (row 0 as it was), one more screen
\* (its 25 rows as they were), or what it held
captured(a, sb, s) ==
    CASE a = "LineScrolled" -> push_line(sb, get_line(s, 0)[1])
      [] a = "ScreenCleared" -> push_screen(sb, s)
      [] OTHER -> sb

\* C27: the coordinator's anticipation is exact: for every byte and every
\* reachable parser and screen state, Terminal.process_byte pushes exactly
\* one line iff the parser's dispatch of the byte returns LineScrolled,
\* exactly one full screen iff it returns ScreenCleared, and nothing iff it
\* returns None.
C27_AnticipationExact ==
    \A b \in EndBytes :
        LET r == Terminal_process_byte(TheTerminal, b)
        IN r.t.scrollback = captured(r.action, scrollback, screen)

(***************************************************************************)
(* renderer.rs and font.rs: the rasterizer.  A Renderer is [canvas,        *)
(* palette]; the canvas maps each cell-sized block <<x, y>> of the surface *)
(* to its RGBA bytes, row-major.                                           *)
(***************************************************************************)
FONT_WIDTH == 8
\* scanlines of a glyph.  The program's font has 14 (font.rs:11); the
\* rasterizer treats every scanline alike, so the model runs on shorter
\* glyphs to keep the canvas small.
FONT_HEIGHT == 2
FONT_BYTES_PER_CHAR == FONT_HEIGHT
SCALE_X == 3
SCALE_Y == 4
CELL_WIDTH == FONT_WIDTH * SCALE_X
CELL_HEIGHT == FONT_HEIGHT * SCALE_Y

\* include_bytes!("../fonts/ega-8x14.bin"): the blob is not part of the
\* sources; a table of the same shape stands for it, one byte per scanline
\* of each of the 256 glyphs.  Nothing below depends on its bytes.
EGA_8X14_FONT ==
    [i \in 0..(256 * FONT_BYTES_PER_CHAR - 1) |-> (i * 37 + (i \div 3) * 101 + 24) % 256]

get_char_bitmap(char_code) ==
    LET start == char_code * FONT_BYTES_PER_CHAR
    IN [k \in 1..FONT_BYTES_PER_CHAR |-> EGA_8X14_FONT[start + k - 1]]

\* (byte & (0x80 >> bit_position)) != 0
is_pixel_set(byte, bit_position) ==
    (byte \div (2 ^ (7 - bit_position))) % 2 = 1

ansi_color_cga(color) ==
    CASE color = 0 -> <<0, 0, 0>>        [] color = 1 -> <<196, 0, 0>>
      [] color = 2 -> <<0, 196, 0>>      [] color = 3 -> <<196, 126, 0>>
      [] color = 4 -> <<0, 0, 196>>      [] color = 5 -> <<196, 0, 196>>
      [] color = 6 -> <<0, 196, 196>>    [] color = 7 -> <<196, 196, 196>>
      [] color = 8 -> <<78, 78, 78>>     [] color = 9 -> <<220, 78, 78>>
      [] color = 10 -> <<78, 220, 78>>   [] color = 11 -> <<243, 243, 78>>
      [] color = 12 -> <<78, 78, 220>>   [] color = 13 -> <<243, 78, 243>>
      [] color = 14 -> <<78, 243, 243>>  [] color = 15 -> <<255, 255, 255>>
      [] OTHER -> <<196, 196, 196>>

ansi_color_vga(color) ==
    CASE color = 0 -> <<0, 0, 0>>        [] color = 1 -> <<170, 0, 0>>
      [] color = 2 -> <<0, 170, 0>>      [] color = 3 -> <<170, 85, 0>>
      [] color = 4 -> <<0, 0, 170>>      [] color = 5 -> <<170, 0, 170>>
      [] color = 6 -> <<0, 170, 170>>    [] color = 7 -> <<170, 170, 170>>
      [] color = 8 -> <<85, 85, 85>>     [] color = 9 -> <<255, 85, 85>>
      [] color = 10 -> <<85, 255, 85>>   [] color = 11 -> <<255, 255, 85>>
      [] color = 12 -> <<85, 85, 255>>   [] color = 13 -> <<255, 85, 255>>
      [] color = 14 -> <<85, 255, 255>>  [] color = 15 -> <<255, 255, 255>>
      [] OTHER -> <<170, 170, 170>>

ansi_color_to_rgb_tuple(color, palette) ==
    IF palette = "Cga" THEN ansi_color_cga(color) ELSE ansi_color_vga(color)

\* seq repeated n times
repeated(seq, n) ==
    [i \in 1..(Len(seq) * n) |-> seq[((i - 1) % Len(seq)) + 1]]

\* the pixels of one scanline from font_x on: each font pixel SCALE_X times
RECURSIVE scanline_pixels(_, _, _, _)
scanline_pixels(scanline, font_x, fg_rgb, bg_rgb) ==
    IF font_x >= FONT_WIDTH THEN << >>
    ELSE LET rgb == IF is_pixel_set(scanline, font_x) THEN fg_rgb ELSE bg_rgb
         IN repeated(<<rgb[1], rgb[2], rgb[3], 255>>, SCALE_X)
                \o scanline_pixels(scanline, font_x + 1, fg_rgb, bg_rgb)

\* pixel_data from scanline font_y on: each scanline SCALE_Y times
RECURSIVE pixel_data_from(_, _, _, _)
pixel_data_from(bitmap, font_y, fg_rgb, bg_rgb) ==
    IF font_y >= FONT_HEIGHT THEN << >>
    ELSE repeated(scanline_pixels(bitmap[font_y + 1], 0, fg_rgb, bg_rgb), SCALE_Y)
             \o pixel_data_from(bitmap, font_y + 1, fg_rgb, bg_rgb)

\* the ImageData that render_cell puts at (x * CELL_WIDTH, y * CELL_HEIGHT)
render_cell(palette, cell) ==
    LET bitmap == get_char_bitmap(cell.ch)
        fg_rgb == ansi_color_to_rgb_tuple(cell.fg, palette)
        bg_rgb == ansi_color_to_rgb_tuple(cell.bg, palette)
    IN pixel_data_from(bitmap, 0, fg_rgb, bg_rgb)

\* the blocks of the canvas: CANVAS_WIDTH / CELL_WIDTH by CANVAS_HEIGHT /
\* CELL_HEIGHT, which is the size of the screen
Blocks == (0..(SCREEN_WIDTH - 1)) \X (0..(SCREEN_HEIGHT - 1))

\* a block after fill_rect with "#000000"
black_block == repeated(<<0, 0, 0, 255>>, CELL_WIDTH * CELL_HEIGHT)

\* mutant: the canvas is not cleared and blank cells are not drawn
render_over_previous(r, s) ==
    [r EXCEPT !.canvas =
        [b \in Blocks |->
            LET c == get_cell(s, b[1], b[2])
            IN IF c # None /\ c[1] # Cell_default
               THEN render_cell(r.palette, c[1])
               ELSE r.canvas[b]]]

\* Renderer::render: clear the canvas to black, then draw every cell
render(r, s) ==
    [r EXCEPT !.canvas =
        [b \in Blocks |->
            LET c == get_cell(s, b[1], b[2])
            IN IF c # None THEN render_cell(r.palette, c[1]) ELSE black_block]]

(***************************************************************************)
(* SpecRender: a Renderer over a Terminal.  Here pending holds the         *)
(* Renderer; its canvas starts cleared or holding other pixels.  Streams   *)
(* are processed whole (fed counts them) and renders happen in between     *)
(* (events counts them).                                                   *)
(***************************************************************************)
\* streams processed between renders
RenderFeeds == 2
\* renders in one behaviour
RenderEvents == 1

Palettes == {"Cga", "Vga"}

\* a canvas holding earlier output: every byte 9
stale_block == repeated(<<9>>, CELL_WIDTH * CELL_HEIGHT * 4)

\* a canvas holding an earlier frame: every cell a yellow-on-blue block glyph
earlier_frame == [b \in Blocks |-> render_cell("Vga", Cell(219, 14, 1))]

PriorCanvases ==
    { [b \in Blocks |-> black_block], [b \in Blocks |-> stale_block], earlier_frame }

\* a coloured block glyph, a bright blinking reversed glyph, a newline
RenderStreams ==
    { <<ESC, 91, 51, 49, 59, 52, 52, 109, 219>>,
      <<ESC, 91, 49, 59, 53, 59, 55, 109, 1>>,
      <<10>> }

InitRender ==
    /\ screen = with_scrollback_lines(MaxLines).screen
    /\ parser = with_scrollback_lines(MaxLines).parser
    /\ scrollback = with_scrollback_lines(MaxLines).scrollback
    /\ action = "None"
    /\ pending \in [canvas : PriorCanvases, palette : Palettes]
    /\ fed = 0
    /\ events = 0

Render_process_bytes ==
    \E s \in RenderStreams :
        /\ fed < RenderFeeds
        /\ SetTerminal(process_bytes(TheTerminal, s))
        /\ fed' = fed + 1
        /\ UNCHANGED <<action, pending, events>>

Render_render ==
    /\ events < RenderEvents
    /\ pending' = render(pending, screen)
    /\ events' = events + 1
    /\ UNCHANGED <<screen, parser, scrollback, action, fed>>

NextRender == Render_process_bytes \/ Render_render

SpecRender == InitRender /\ [][NextRender]_vars

\* the block of a cell: byte i (from 1) belongs to pixel (i - 1) div 4, which
\* lies in column col and row row of the block and shows bit col div SCALE_X
\* of scanline row div SCALE_Y of the glyph; bytes 1..3 of a pixel are the
\* colour, byte 4 is alpha
block_of(palette, cell) ==
    LET bitmap == get_char_bitmap(cell.ch)
        fg_rgb == ansi_color_to_rgb_tuple(cell.fg, palette)
        bg_rgb == ansi_color_to_rgb_tuple(cell.bg, palette)
    IN [i \in 1..(CELL_WIDTH * CELL_HEIGHT * 4) |->
            LET k == (i - 1) % 4
                col == ((i - 1) \div 4) % CELL_WIDTH
                row == ((i - 1) \div 4) \div CELL_WIDTH
            IN IF k = 3 THEN 255
               ELSE IF is_pixel_set(bitmap[(row \div SCALE_Y) + 1], col \div SCALE_X)
                    THEN fg_rgb[k + 1]
                    ELSE bg_rgb[k + 1]]

\* the RGBA output for a screen and a palette
image_of(s, palette) ==
    [b \in Blocks |-> block_of(palette, get_cell(s, b[1], b[2])[1])]

\* C28: two renders given equal (screen, palette) produce byte-identical
\* RGBA output, whatever the canvas held before: the output is the image in
\* which each cell's pixels are given by that cell's ch, fg and bg, the
\* glyph bitmap and the palette alone (the fg colour where the glyph bit is
\* set, the bg colour otherwise, alpha 255).
C28_RasterizerDeterministic ==
    [][events' = events + 1 =>
          pending'.canvas = image_of(screen, pending.palette)]_vars

\* a canvas that held other pixels has been rendered from a screen with a
\* coloured glyph in its first cell
C28_Witness ==
    /\ events = 1
    /\ fed >= 1
    /\ get_cell(screen, 0, 0) = Some(Cell(219, 1, 4))
    /\ pending.canvas[<<0, 0>>] # black_block
    /\ pending.canvas[<<0, 0>>] # stale_block
    /\ pending.canvas[<<1, 0>>] # stale_block

\* the offset from the bottom: viewport_position in mouse mode,
\* history.len() - viewport_position in keyboard/viewer mode
offset_from_bottom_of(sb) ==
    IF sb.keyboard_entry THEN Len(sb.history) - sb.viewport_position
    ELSE sb.viewport_position

\* C29: start_animated_exit on an active buffer: if the offset from the
\* bottom is zero it performs exit() and returns false; otherwise it returns
\* true with animating_exit set and the offset kept mouse-style, and every
\* displayed row (get_display_line(y) for y in 0..24) is the same after the
\* call as before it.  On an inactive buffer it returns false and changes
\* nothing.
C29_AnimatedExitKeepsView ==
    LET r == start_animated_exit(scrollback)
        offset == offset_from_bottom_of(scrollback)
    IN IF ~scrollback.active
       THEN ~r.ret /\ r.sb = scrollback
       ELSE IF offset = 0
            THEN /\ ~r.ret
                 /\ ~r.sb.active
                 /\ ~r.sb.keyboard_entry
                 /\ ~r.sb.animating_exit
                 /\ ~r.sb.viewer_mode
                 /\ r.sb.viewport_position = 0
                 /\ r.sb.history = scrollback.history
            ELSE /\ r.ret
                 /\ r.sb.active
                 /\ r.sb.animating_exit
                 /\ ~r.sb.keyboard_entry
                 /\ r.sb.viewport_position = offset
                 /\ r.sb.history = scrollback.history
                 /\ display(r.sb, screen) = display(scrollback, screen)

\* a keyboard-mode view strictly inside the history, showing history rows
\* above screen rows, from which the animated exit starts
C29_Witness ==
    /\ scrollback.active
    /\ scrollback.keyboard_entry
    /\ ~scrollback.animating_exit
    /\ scrollback.viewport_position > 0
    /\ scrollback.viewport_position < Len(scrollback.history)
    /\ Len(scrollback.history) - scrollback.viewport_position < SCREEN_HEIGHT
    /\ start_animated_exit(scrollback).ret
    /\ start_animated_exit(scrollback).sb.viewport_position
           = Len(scrollback.history) - scrollback.viewport_position
    /\ display(scrollback, screen)[0] # display(scrollback, screen)[SCREEN_HEIGHT - 1]

\* C30: Alt+K during an exit animation parks the view: toggle_scrollback
\* called while animating_exit is true clears animating_exit, switches to
\* keyboard mode with viewport_position = history.len() - offset, keeps the
\* buffer active, and leaves every displayed row (get_display_line(y) for y
\* in 0..24) identical to what it was before the call.
C30_ToggleParksView ==
    scrollback.animating_exit =>
        LET sb == toggle_scrollback(scrollback)
        IN /\ ~sb.animating_exit
           /\ sb.keyboard_entry
           /\ sb.viewport_position
                  = Len(scrollback.history) - scrollback.viewport_position
           /\ sb.active
           /\ sb.history = scrollback.history
           /\ display(sb, screen) = display(scrollback, screen)

\* bytes on which the Normal state is examined: control bytes (NUL, BEL,
\* BS, TAB, LF, VT, FF, CR, SUB, FS, US), the first printable, letters,
\* DEL and bytes above 0x7F
NormalBytes == {0, 7, 8, 9, 10, 11, 12, 13, 26, 28, 31, 32, 65, 126, 127, 128, 219, 255}

\* screen s2 shows the cells of s1 moved up one row, with a blank bottom row
scrolled_from(s1, s2) ==
    \A x \in 0..(SCREEN_WIDTH - 1) :
        /\ \A y \in 0..(SCREEN_HEIGHT - 2) :
               get_cell(s2, x, y) = get_cell(s1, x, y + 1)
        /\ get_cell(s2, x, SCREEN_HEIGHT - 1) = Some(Cell_default)

\* screens s1 and s2 show the same cells except possibly at (cx, cy)
same_cells_but(s1, s2, cx, cy) ==
    \A x \in 0..(SCREEN_WIDTH - 1) : \A y \in 0..(SCREEN_HEIGHT - 1) :
        (x # cx \/ y # cy) => get_cell(s2, x, y) = get_cell(s1, x, y)

same_cells(s1, s2) ==
    \A x \in 0..(SCREEN_WIDTH - 1) : \A y \in 0..(SCREEN_HEIGHT - 1) :
        get_cell(s2, x, y) = get_cell(s1, x, y)

\* the claim's rule for byte b in the Normal state, from parser p and screen
\* s to the result r of process_byte
normal_rule(p, s, b, r) ==
    LET x == cursor_pos(s)[1]
        y == cursor_pos(s)[2]
        written == set_cell(s, x, y, Cell(b, effective_fg(p), effective_bg(p)))
    IN IF b = ESC THEN TRUE
       ELSE IF b >= 32
       THEN /\ r.parser = p
            /\ IF x < LAST_COLUMN
               THEN /\ cursor_pos(r.screen) = <<x + 1, y>>
                    /\ same_cells(written, r.screen)
                    /\ r.action = "None"
               ELSE IF y < SCREEN_HEIGHT - 1
               THEN /\ cursor_pos(r.screen) = <<0, y + 1>>
                    /\ same_cells(written, r.screen)
                    /\ r.action = "None"
               ELSE /\ cursor_pos(r.screen) = <<0, SCREEN_HEIGHT - 1>>
                    /\ scrolled_from(written, r.screen)
                    /\ r.action = "LineScrolled"
       ELSE IF b = 10
       THEN /\ r.parser = p
            /\ IF y < SCREEN_HEIGHT - 1
               THEN /\ cursor_pos(r.screen) = <<0, y + 1>>
                    /\ same_cells(s, r.screen)
                    /\ r.action = "None"
               ELSE /\ cursor_pos(r.screen) = <<0, SCREEN_HEIGHT - 1>>
                    /\ scrolled_from(s, r.screen)
                    /\ r.action = "LineScrolled"
       ELSE IF b = 13
       THEN /\ r.parser = p
            /\ cursor_pos(r.screen) = <<0, y>>
            /\ same_cells(s, r.screen)
            /\ r.action = "None"
       ELSE r = Result(p, s, "None")

\* C31: in the Normal state a printable byte (>= 0x20) writes the cell at
\* the cursor and then moves to (x+1, y) if x is left of the last column,
\* else to (0, y+1) if y < 24, else scrolls the screen up one row and leaves
\* the cursor at (0, 24); a newline moves to (0, y+1) if y < 24, else scrolls
\* with the cursor at (0, 24); a carriage return sets only x to 0; any other
\* byte below 0x20 except ESC changes nothing.
C31_NormalCursorMovement ==
    is_in_normal_state(parser) =>
        \A b \in NormalBytes :
            normal_rule(parser, screen, b,
                        AnsiParser_process_byte(parser, b, screen))

\* the cursor sits in the bottom-right corner over a screen that is no
\* longer blank, where a printable byte scrolls
C31_Witness ==
    /\ is_in_normal_state(parser)
    /\ cursor_pos(screen) = <<LAST_COLUMN, SCREEN_HEIGHT - 1>>
    /\ \E x \in 0..(SCREEN_WIDTH - 1) : \E y \in 1..(SCREEN_HEIGHT - 1) :
           get_cell(screen, x, y) # Some(Cell_default)
    /\ AnsiParser_process_byte(parser, 65, screen).action = "LineScrolled"

\* parameter strings of CSI H / f: absent, "0", "1", "2", "5", "99"
PositionParams == { << >>, <<48>>, <<49>>, <<50>>, <<53>>, <<57, 57>> }

\* the value of a parameter as written, 1 when it is absent
param_value(str) == IF str = << >> THEN 1 ELSE digits_value(str)

\* v clamped into 0..hi
clamped(v, hi) == Min(Max(v, 0), hi)

\* ESC [ p1 H and ESC [ p1 ; p2 H, and the same with f
position_streams(p1, p2) ==
    { <<ESC, 91>> \o p1 \o <<59>> \o p2 \o <<c>> : c \in {72, 102} }
    \cup IF p2 = << >> THEN { <<ESC, 91>> \o p1 \o <<c>> : c \in {72, 102} }
         ELSE {}

\* the cursor that (p1, p2) call for: (row, col) = (p1 - 1, p2 - 1), clamped
position_of(p1, p2) ==
    <<clamped(param_value(p2) - 1, SCREEN_WIDTH - 1),
      clamped(param_value(p1) - 1, SCREEN_HEIGHT - 1)>>

\* C32: CSI H / f sets the cursor to (row, col) = (p1-1, p2-1) clamped into
\* the screen, where p1 is the parameter before the first ';' and p2 the
\* parameter after it, each defaulting to 1 when it is absent (including an
\* empty first parameter as in ESC[;5H).
C32_CursorPosition ==
    is_in_normal_state(parser) =>
        \A p1 \in PositionParams : \A p2 \in PositionParams :
            \A st \in position_streams(p1, p2) :
                cursor_pos(process_bytes(TheTerminal, st).screen)
                    = position_of(p1, p2)

\* parameters of the relative moves: absent (None) or a value from 0 to the
\* largest the parser accepts
MoveValues ==
    {None} \cup { Some(v) : v \in {0, 1, 2, 24, 25, 99,
                                   WORD_MAX - 24, WORD_MAX - 1, WORD_MAX} }

\* ESC [ p1 cmd
move_stream(p1, cmd) ==
    <<ESC, 91>> \o (IF p1 = None THEN << >> ELSE digits_of(p1[1])) \o <<cmd>>

\* the cursor that a move by n from (x, y) calls for, clamped silently
moved(x, y, cmd, n) ==
    CASE cmd = 65 -> <<x, Max(y - n, 0)>>
      [] cmd = 66 -> <<x, Min(y + n, SCREEN_HEIGHT - 1)>>
      [] cmd = 67 -> <<Min(x + n, SCREEN_WIDTH - 1), y>>
      [] cmd = 68 -> <<Max(x - n, 0), y>>

\* the addition that the move performs leaves the range of usize
move_overflows(x, y, cmd, n) ==
    CASE cmd = 66 -> usize_add_overflows(y, n)
      [] cmd = 67 -> usize_add_overflows(x, n)
      [] OTHER -> FALSE

\* C33: CSI A/B/C/D move the cursor by p1 (default 1) with silent clamping
\* for every parameter value the parser accepts (0 up to the largest u32):
\* A and D saturate at 0, B stops at row 24 and C at the last column; the
\* additions y+p1 and x+p1 neither wrap around nor fault.
C33_RelativeMovesClamp ==
    is_in_normal_state(parser) =>
        \A p1 \in MoveValues : \A cmd \in MoveCommands :
            LET n == IF p1 = None THEN 1 ELSE p1[1]
                x == cursor_pos(screen)[1]
                y == cursor_pos(screen)[2]
            IN /\ ~move_overflows(x, y, cmd, n)
               /\ cursor_pos(process_bytes(TheTerminal, move_stream(p1, cmd)).screen)
                      = moved(x, y, cmd, n)

\* C34: in every reachable state, in mouse mode and in keyboard/viewer mode
\* alike, 0 <= viewport_position <= history.len(), across pushes, trims,
\* scrolls, animation frames and mode conversions.
C34_ViewportInHistory ==
    /\ scrollback.viewport_position >= 0
    /\ scrollback.viewport_position <= Len(scrollback.history)

\* a full history that has been trimmed, viewed in mouse mode from its top
C34_Witness ==
    /\ fed >= 2
    /\ Len(scrollback.history) = scrollback.max_lines
    /\ mouse_mode(scrollback)
    /\ ~scrollback.animating_exit
    /\ scrollback.viewport_position = Len(scrollback.history)

\* the virtual buffer: the history followed by the 25 packed screen rows
virtual_buffer(sb, s) ==
    sb.history \o [k \in 1..SCREEN_HEIGHT |-> pack_cells(row_cells(s, k - 1))]

\* index in the virtual buffer of the first displayed row
view_start_of(sb) ==
    IF ~sb.active THEN Len(sb.history)
    ELSE IF sb.keyboard_entry THEN sb.viewport_position
    ELSE Len(sb.history) - sb.viewport_position

\* rows past the screen on which get_display_line is examined
RowsBelow == {SCREEN_HEIGHT, SCREEN_HEIGHT + 1, 4 * SCREEN_HEIGHT}

\* C35: get_display_line is total on the visible rows: in every reachable
\* state and for every y in 0..24 it returns a line (never None, never an
\* out-of-range history or screen index), equal to element start+y of the
\* virtual buffer history ++ screen, where start = viewport_position in
\* keyboard/viewer mode and history.len() - viewport_position in mouse mode;
\* when inactive it returns live screen row y.  For y >= 25 it returns None.
C35_DisplayLineTotal ==
    LET vb == virtual_buffer(scrollback, screen)
        start == view_start_of(scrollback)
    IN /\ \A y \in 0..(SCREEN_HEIGHT - 1) :
              /\ start + y >= 0
              /\ start + y < Len(vb)
              /\ get_display_line(scrollback, y, screen) = Some(vb[start + y + 1])
       /\ \A y \in RowsBelow : get_display_line(scrollback, y, screen) = None

\* a mouse-mode window that starts in the history and ends on the screen
C35_Witness ==
    /\ mouse_mode(scrollback)
    /\ scrollback.viewport_position > 0
    /\ scrollback.viewport_position < SCREEN_HEIGHT
    /\ scrollback.viewport_position < Len(scrollback.history)
    /\ get_display_line(scrollback, 0, screen)
           = Some(scrollback.history[view_start_of(scrollback) + 1])
    /\ get_display_line(scrollback, SCREEN_HEIGHT - 1, screen)
           # get_display_line(scrollback, 0, screen)

\* C36: scrollback can only be active over nonempty history: in every
\* reachable state active implies history.len() > 0; enter_scrollback,
\* enter_scrollback_keyboard, enter_viewer_mode, scroll_up and
\* toggle_scrollback leave the buffer inactive and unchanged when the
\* history is empty, and enter_scrollback / enter_scrollback_keyboard change
\* nothing when the buffer is already active.
C36_ActiveOverHistory ==
    /\ scrollback.active => Len(scrollback.history) > 0
    /\ scrollback.history = << >> =>
           /\ ~scrollback.active
           /\ enter_scrollback(scrollback) = scrollback
           /\ enter_scrollback_keyboard(scrollback) = scrollback
           /\ enter_viewer_mode(scrollback) = scrollback
           /\ toggle_scrollback(scrollback) = scrollback
           /\ \A n \in ScrollAmounts \cup {0, SCREEN_HEIGHT} :
                  scroll_up(scrollback, n) = scrollback
    /\ scrollback.active =>
           /\ enter_scrollback(scrollback) = scrollback
           /\ enter_scrollback_keyboard(scrollback) = scrollback

\* navigation has been tried over an empty history and the buffer is still
\* inactive
C36_Witness ==
    /\ scrollback.history = << >>
    /\ events = MaxOps
    /\ ~scrollback.active
    /\ scrollback.viewport_position = 0

\* the content of a Terminal: screen cells and cursor, parser state, history
content(t) ==
    [screen |-> t.screen, parser |-> t.parser, history |-> t.scrollback.history]

\* the Terminal after each input event and animation frame
navigated(t) ==
    { handle_wheel(t, d).t : d \in WheelDeltas }
    \cup { handle_key(t, k[1], k[2]).t : k \in KeyEvents }
    \cup { handle_click(t).t, animation_frame(t),
           [t EXCEPT !.scrollback = animate_exit_frame(@).sb] }

\* the bytes that may be delivered next: the next byte of the stream in
\* flight, or the first byte of any stream when none is in flight
next_bytes == { Head(st) : st \in next_streams }

\* C37: navigation never alters content: handle_wheel, handle_key,
\* handle_click and animate_exit_frame leave the screen cells, the cursor,
\* the parser state and the history lines unchanged; and the next byte has
\* the same effect on them after the event as before it, so that the final
\* screen and history after a byte stream are the same for every
\* interleaving of input events and animation frames with the bytes.
C37_NavigationKeepsContent ==
    \A t1 \in navigated(TheTerminal) \ {TheTerminal} :
        /\ content(t1) = content(TheTerminal)
        /\ \A b \in next_bytes :
               content(Terminal_process_byte(t1, b).t)
                   = content(Terminal_process_byte(TheTerminal, b).t)

\* events have arrived in the middle of a sequence whose next byte captures
\* the screen, while the history is being viewed
C37_Witness ==
    /\ events >= 1
    /\ pending # << >>
    /\ is_active(scrollback)
    /\ Len(scrollback.history) > 0
    /\ is_about_to_clear_screen(TheTerminal, Head(pending))

(***************************************************************************)
(* SpecColour: colours on the screen and in the history.  The Terminal     *)
(* starts after one SGR sequence that selects a foreground and a           *)
(* background colour (normal or bright) and any of bold, blink and         *)
(* reverse; then printable bytes are written and the screen is cleared     *)
(* with ESC[2J, which records it in the history.  fed counts these steps.  *)
(***************************************************************************)
\* steps after the SGR sequence in one behaviour
ColourFeeds == 2

\* the SGR parameter that selects foreground colour f of 0..15
fg_code(f) == IF f < 8 THEN 30 + f ELSE 90 + (f - 8)

\* the SGR parameter that selects background colour b of 0..15
bg_code(b) == IF b < 8 THEN 40 + b ELSE 100 + (b - 8)

\* ESC [ 0 ; fg ; bg [; 1] [; 5] [; 7] m
colour_stream(f, b, bold, blink, reverse) ==
    <<ESC, 91, 48, 59>> \o digits_of(fg_code(f)) \o <<59>> \o digits_of(bg_code(b))
        \o (IF bold THEN <<59, 49>> ELSE << >>)
        \o (IF blink THEN <<59, 53>> ELSE << >>)
        \o (IF reverse THEN <<59, 55>> ELSE << >>)
        \o <<109>>

InitColour ==
    \E f \in 0..15, b \in 0..15, bold \in BOOLEAN, blink \in BOOLEAN,
       reverse \in BOOLEAN :
        LET t == process_bytes(with_scrollback_lines(MaxLines),
                               colour_stream(f, b, bold, blink, reverse))
        IN /\ screen = t.screen
           /\ parser = t.parser
           /\ scrollback = t.scrollback
           /\ action = "None"
           /\ pending = << >>
           /\ fed = 0
           /\ events = 0

\* Terminal::process_byte on a printable byte
Colour_write ==
    /\ fed < ColourFeeds
    /\ LET r == Terminal_process_byte(TheTerminal, 219)
       IN SetTerminal(r.t) /\ action' = r.action
    /\ fed' = fed + 1
    /\ UNCHANGED <<pending, events>>

\* Terminal::process_bytes on ESC[2J
Colour_clear ==
    /\ fed < ColourFeeds
    /\ SetTerminal(process_bytes(TheTerminal, <<ESC, 91, 50, 74>>))
    /\ fed' = fed + 1
    /\ UNCHANGED <<action, pending, events>>

NextColour == Colour_write \/ Colour_clear

SpecColour == InitColour /\ [][NextColour]_vars

\* the cells a packed line unpacks to
unpack_line(line) ==
    [x \in 1..SCREEN_WIDTH |-> cga_to_cell(<<line[2 * x - 1], line[2 * x]>>)]

\* a colour index of 0..=15
is_colour(c) == c >= 0 /\ c <= 15

\* every cell of the screen and of the history holds colours of 0..=15, and
\* every screen row is the row its packed line unpacks to
colours_in_range ==
    /\ is_colour(effective_fg(parser)) /\ is_colour(effective_bg(parser))
    /\ \A y \in 0..(SCREEN_HEIGHT - 1) :
           /\ \A x \in 0..(SCREEN_WIDTH - 1) :
                  LET c == get_cell(screen, x, y)[1]
                  IN is_colour(c.fg) /\ is_colour(c.bg)
           /\ unpack_line(pack_cells(row_cells(screen, y))) = row_cells(screen, y)
    /\ \A i \in 1..Len(scrollback.history) :
           LET cells == unpack_line(scrollback.history[i])
           IN \A x \in 1..SCREEN_WIDTH :
                  is_colour(cells[x].fg) /\ is_colour(cells[x].bg)

\* a step that records the screen leaves its rows, unpacked, as the last
\* lines of the history
recorded_exactly ==
    scrollback'.history # scrollback.history =>
        LET h == scrollback'.history
        IN \A y \in 0..(SCREEN_HEIGHT - 1) :
               unpack_line(h[Len(h) - SCREEN_HEIGHT + y + 1]) = row_cells(screen, y)

\* C38: after any byte stream, every screen cell and every cell recorded in
\* the history has fg and bg in 0..=15 (effective colours included, for
\* every combination of bold, blink, reverse and bright colours), so packing
\* a screen row into the history loses no information: the row unpacked
\* from its packed line is the row itself, also for the lines that ESC[2J
\* records.
C38_ColoursInRange == []colours_in_range /\ [][recorded_exactly]_vars

\* a bright, bold, blinking, reversed glyph has been written and the screen
\* recorded in the history, then cleared with the effective background
C38_Witness ==
    /\ fed = ColourFeeds
    /\ parser.bold /\ parser.blink /\ parser.reverse
    /\ parser.current_fg = 3 /\ parser.current_bg = 12
    /\ Len(scrollback.history) = SCREEN_HEIGHT
    /\ unpack_line(scrollback.history[1])[1] = Cell(219, 12, 11)
    /\ get_cell(screen, 0, 0) = Some(Cell(32, 7, 11))

(***************************************************************************)
(* SpecLoop: the frame loops of start_exit_animation under input events.   *)
(* A loop is one closure created by start_exit_animation; it is scheduled  *)
(* with request_animation_frame and reschedules itself while the animation *)
(* runs.  The host runs, in one frame, every callback that was scheduled   *)
(* before the frame began, in the order of scheduling; input events are    *)
(* dispatched between frames.  Here                                        *)
(*   pending.queue   the loops scheduled for the next host frame           *)
(*   pending.frame   the loops whose callback is still to run in the       *)
(*                   current host frame                                    *)
(*   pending.stale   a loop advanced the animation after the animation it  *)
(*                   was started for had been cancelled                    *)
(*   fed             animate_exit_frame calls made in the current frame    *)
(*   events          input events dispatched so far                        *)
(* A loop is a record [cancelled]: the flag is set when an input event     *)
(* stops the animation while the loop is scheduled.                        *)
(***************************************************************************)
\* input events dispatched in one behaviour
LoopEvents == 3

\* the buffers the events start from: inactive, or viewing the history in
\* mouse, keyboard or viewer mode
LoopStarts ==
    {filled(MaxLines, AnimLines)} \cup AnimStartsOf(MaxLines, AnimLines)

InitLoop ==
    /\ screen = process_bytes(with_scrollback_lines(MaxLines), PaintUpper).screen
    /\ parser = AnsiParser_new
    /\ scrollback \in LoopStarts
    /\ action = "None"
    /\ pending = [queue |-> << >>, frame |-> << >>, stale |-> FALSE]
    /\ fed = 0
    /\ events = 0

cancel_loops(queue) == [i \in 1..Len(queue) |-> [cancelled |-> TRUE]]

\* the part the wheel, keydown and click closures share: r is the handler's
\* result; start_exit_animation is called when the handler reports the
\* event handled and the animation was not running before and is running now
Loop_event(r) ==
    LET was_animating == is_animating_exit(scrollback)
        now_animating == is_animating_exit(r.t.scrollback)
        queue == IF was_animating /\ ~now_animating
                 THEN cancel_loops(pending.queue) ELSE pending.queue
    IN /\ pending.frame = << >>
       /\ events < LoopEvents
       /\ scrollback' = r.t.scrollback
       /\ pending' = [pending EXCEPT !.queue =
                         IF r.ret /\ ~was_animating /\ now_animating
                         THEN Append(queue, [cancelled |-> FALSE])
                         ELSE queue]
       /\ events' = events + 1
       /\ UNCHANGED <<screen, parser, action, fed>>

Loop_wheel == \E d \in WheelDeltas : Loop_event(handle_wheel(TheTerminal, d))

Loop_keydown ==
    \E k \in KeyEvents : Loop_event(handle_key(TheTerminal, k[1], k[2]))

Loop_click == Loop_event(handle_click(TheTerminal))

\* a host frame begins: the callbacks scheduled so far will run in it
Loop_begin_frame ==
    /\ pending.frame = << >>
    /\ pending.queue # << >>
    /\ pending' = [pending EXCEPT !.frame = pending.queue, !.queue = << >>]
    /\ fed' = 0
    /\ UNCHANGED <<screen, parser, scrollback, action, events>>

\* the closure of start_exit_animation runs for the first loop of the frame
Loop_frame_callback ==
    /\ pending.frame # << >>
    /\ LET loop == Head(pending.frame)
           rest == Tail(pending.frame)
       IN IF ~is_animating_exit(scrollback)
          THEN /\ pending' = [pending EXCEPT !.frame = rest]
               /\ UNCHANGED <<scrollback, fed>>
          ELSE LET r == animate_exit_frame(scrollback)
               IN /\ scrollback' = r.sb
                  /\ fed' = fed + 1
                  /\ pending' =
                         [pending EXCEPT
                             !.frame = rest,
                             !.stale = @ \/ loop.cancelled,
                             !.queue = IF r.ret /\ is_animating_exit(r.sb)
                                       THEN Append(@, loop) ELSE @]
    /\ UNCHANGED <<screen, parser, action, events>>

NextLoop ==
    \/ Loop_wheel
    \/ Loop_keydown
    \/ Loop_click
    \/ Loop_begin_frame
    \/ Loop_frame_callback

SpecLoop == InitLoop /\ [][NextLoop]_vars

\* C39: the frame loop stops when its animation is cancelled by user input:
\* a loop whose animation was cancelled makes no further animate_exit_frame
\* call, even when a new animated exit is started before its next scheduled
\* frame fires; hence at most one loop advances the animation in a host
\* frame (at most one step of LINES_PER_FRAME lines per frame).
C39_OneFrameLoop ==
    /\ ~pending.stale
    /\ fed <= 1

(***************************************************************************)
(* SpecBorrow: the borrows of the Rc<RefCell<Terminal>> shared by the      *)
(* paced loop of render_ansi_async, the wheel, keydown and click closures  *)
(* and the frame closure of start_exit_animation.  The host is single-     *)
(* threaded: a callback runs until it returns, the paced loop until it     *)
(* suspends in sleep_ms, and request_animation_frame only queues its       *)
(* callback.  Each callback is split at the points where it borrows,       *)
(* releases, schedules or suspends.  Here                                  *)
(*   pending.borrow  the RefCell's flag: 0 free, -1 one RefMut, n > 0      *)
(*                   n Refs                                                *)
(*   pending.pc      where the running callback is ("idle": none running)  *)
(*   pending.frames  frame callbacks queued by request_animation_frame     *)
(*   pending.failed  a borrow was tried while an incompatible one was held *)
(*                   (BorrowError / BorrowMutError: the callback panics)   *)
(*   pending.held    a frame callback was scheduled, or the paced loop     *)
(*                   suspended or a callback returned, with a borrow held  *)
(*   fed             chunks the paced loop has processed                   *)
(*   events          input events dispatched so far                        *)
(***************************************************************************)
\* chunks of the paced loop (content.len() / bytes_per_frame)
PacedChunks == 2
\* input events dispatched in one behaviour
BorrowEvents == 3

\* one chunk of the content: 32 newlines and a letter
PacedChunk == [i \in 1..33 |-> IF i = 33 THEN 88 ELSE 10]

\* RefCell::borrow_mut, RefCell::borrow and the drop of RefMut and Ref, on
\* the flag; the borrows return [flag, ok]
borrow_mut(flag) ==
    IF flag = 0 THEN [flag |-> -1, ok |-> TRUE] ELSE [flag |-> flag, ok |-> FALSE]

borrow(flag) ==
    IF flag >= 0 THEN [flag |-> flag + 1, ok |-> TRUE] ELSE [flag |-> flag, ok |-> FALSE]

\* mutant: the RefMut outlives the point where the code drops it
drop_ref_mut_kept(flag) == flag

drop_ref_mut(flag) == IF flag = -1 THEN 0 ELSE flag

\* mutant: the Ref outlives the block it was taken in
drop_ref_kept(flag) == flag

drop_ref(flag) == IF flag > 0 THEN flag - 1 ELSE flag

InitBorrow ==
    /\ screen = with_scrollback_lines(MaxLines).screen
    /\ parser = with_scrollback_lines(MaxLines).parser
    /\ scrollback = with_scrollback_lines(MaxLines).scrollback
    /\ action = "None"
    /\ pending = [borrow |-> 0, pc |-> "idle", frames |-> 0,
                  failed |-> FALSE, held |-> FALSE]
    /\ fed = 0
    /\ events = 0

\* the callback at pc moves to next with the flag set to flag
Goto(next, flag) == pending' = [pending EXCEPT !.pc = next, !.borrow = flag]

\* a callback that panics on its borrow ends there
Panic == pending' = [pending EXCEPT !.pc = "idle", !.failed = TRUE]

\* the callback returns, or the paced loop suspends or ends
Return == pending' = [pending EXCEPT !.pc = "idle", !.held = @ \/ pending.borrow # 0]

\* request_animation_frame
Schedule(next) ==
    pending' = [pending EXCEPT !.pc = next, !.frames = @ + 1,
                               !.held = @ \/ pending.borrow # 0]

\* lib.rs 255-258: borrow_mut, process_bytes over the chunk, end of block
Borrow_paced_process ==
    /\ pending.pc = "idle"
    /\ fed < PacedChunks
    /\ LET b == borrow_mut(pending.borrow)
       IN IF ~b.ok THEN Panic /\ UNCHANGED <<screen, parser, scrollback, fed>>
          ELSE LET t == process_bytes(TheTerminal, PacedChunk)
               IN /\ screen' = t.screen
                  /\ parser' = t.parser
                  /\ scrollback' = t.scrollback
                  /\ fed' = fed + 1
                  /\ Goto("paced_render", drop_ref_mut(b.flag))
    /\ UNCHANGED <<action, events>>

\* lib.rs 261-265: borrow, render, end of block
Borrow_paced_render ==
    /\ pending.pc = "paced_render"
    /\ LET b == borrow(pending.borrow)
       IN IF ~b.ok THEN Panic ELSE Goto("paced_sleep", drop_ref(b.flag))
    /\ UNCHANGED <<screen, parser, scrollback, action, fed, events>>

\* lib.rs 267-272: the loop suspends in sleep_ms, or ends after the last chunk
Borrow_paced_sleep ==
    /\ pending.pc = "paced_sleep"
    /\ Return
    /\ UNCHANGED <<screen, parser, scrollback, action, fed, events>>

\* terminal.rs 216-224: an event closure borrows, runs its handler (r is the
\* handler's result) and renders
Borrow_event(r) ==
    LET b == borrow_mut(pending.borrow)
        starts == /\ r.ret
                  /\ ~is_animating_exit(scrollback)
                  /\ is_animating_exit(r.t.scrollback)
    IN /\ pending.pc = "idle"
       /\ events < BorrowEvents
       /\ events' = events + 1
       /\ IF ~b.ok THEN Panic /\ UNCHANGED scrollback
          ELSE /\ scrollback' = r.t.scrollback
               /\ Goto(IF starts THEN "event_drop" ELSE "event_end", b.flag)
       /\ UNCHANGED <<screen, parser, action, fed>>

Borrow_wheel == \E d \in WheelDeltas : Borrow_event(handle_wheel(TheTerminal, d))

Borrow_keydown ==
    \E k \in KeyEvents : Borrow_event(handle_key(TheTerminal, k[1], k[2]))

Borrow_click == Borrow_event(handle_click(TheTerminal))

\* terminal.rs 225: drop(term) before the animation is started
Borrow_event_drop ==
    /\ pending.pc = "event_drop"
    /\ Goto("event_start", drop_ref_mut(pending.borrow))
    /\ UNCHANGED <<screen, parser, scrollback, action, fed, events>>

\* terminal.rs 226-231, 404-407: start_exit_animation schedules the loop
Borrow_event_start ==
    /\ pending.pc = "event_start"
    /\ Schedule("event_end")
    /\ UNCHANGED <<screen, parser, scrollback, action, fed, events>>

\* terminal.rs 233-234: the closure returns; a term still alive is dropped
Borrow_event_end ==
    /\ pending.pc = "event_end"
    /\ pending' = [pending EXCEPT !.pc = "idle", !.borrow = drop_ref_mut(@)]
    /\ UNCHANGED <<screen, parser, scrollback, action, fed, events>>

\* terminal.rs 372-391: the frame closure borrows, returns when the
\* animation is not running, else advances it and renders
Borrow_frame ==
    /\ pending.pc = "idle"
    /\ pending.frames > 0
    /\ LET b == borrow_mut(pending.borrow)
           r == animate_exit_frame(scrollback)
       IN IF ~b.ok
          THEN /\ pending' = [pending EXCEPT !.frames = @ - 1, !.failed = TRUE]
               /\ UNCHANGED scrollback
          ELSE IF ~is_animating_exit(scrollback)
               THEN /\ pending' = [pending EXCEPT !.frames = @ - 1,
                                                  !.pc = "frame_end",
                                                  !.borrow = b.flag]
                    /\ UNCHANGED scrollback
               ELSE /\ scrollback' = r.sb
                    /\ pending' =
                           [pending EXCEPT
                               !.frames = @ - 1,
                               !.borrow = b.flag,
                               !.pc = IF r.ret /\ is_animating_exit(r.sb)
                                      THEN "frame_drop" ELSE "frame_end"]
    /\ UNCHANGED <<screen, parser, action, fed, events>>

\* terminal.rs 392: drop(term) before the next frame is requested
Borrow_frame_drop ==
    /\ pending.pc = "frame_drop"
    /\ Goto("frame_schedule", drop_ref_mut(pending.borrow))
    /\ UNCHANGED <<screen, parser, scrollback, action, fed, events>>

\* terminal.rs 393-397: request_animation_frame
Borrow_frame_schedule ==
    /\ pending.pc = "frame_schedule"
    /\ Schedule("frame_end")
    /\ UNCHANGED <<screen, parser, scrollback, action, fed, events>>

\* terminal.rs 380, 400-402: the closure returns; a term still alive is
\* dropped
Borrow_frame_end ==
    /\ pending.pc = "frame_end"
    /\ pending' = [pending EXCEPT !.pc = "idle", !.borrow = drop_ref_mut(@)]
    /\ UNCHANGED <<screen, parser, scrollback, action, fed, events>>

NextBorrow ==
    \/ Borrow_paced_process
    \/ Borrow_paced_render
    \/ Borrow_paced_sleep
    \/ Borrow_wheel
    \/ Borrow_keydown
    \/ Borrow_click
    \/ Borrow_event_drop
    \/ Borrow_event_start
    \/ Borrow_event_end
    \/ Borrow_frame
    \/ Borrow_frame_drop
    \/ Borrow_frame_schedule
    \/ Borrow_frame_end

SpecBorrow == InitBorrow /\ [][NextBorrow]_vars

\* C40: under every interleaving of the wheel, keydown and click closures,
\* the frame callbacks and the steps of the paced loop, no callback tries to
\* borrow the Terminal while another borrow is held, and every borrow is
\* released before a frame callback is scheduled, before the paced loop
\* suspends and when a callback has returned.
C40_ExclusiveAccess ==
    /\ ~pending.failed
    /\ ~pending.held
    /\ pending.pc = "idle" => pending.borrow = 0

\* two page-up events and a click between the chunks of the paced loop have
\* started the animation from the top of a full history, a frame callback
\* has advanced it by one step and rescheduled itself, and the paced loop
\* has run to its end
C40_Witness ==
    /\ fed = PacedChunks
    /\ events = BorrowEvents
    /\ pending.pc = "idle"
    /\ pending.frames = 1
    /\ is_animating_exit(scrollback)
    /\ Len(scrollback.history) = MaxLines
    /\ scrollback.viewport_position = MaxLines - LINES_PER_FRAME

====
